---------------------------- MODULE Spec2Model ----------------------------
(*                                                                         *)
(* A model of the imageset-packer core: the MaxRects atlas packer          *)
(* (internal/packer), the EDDS block and file codec (internal/edds) and    *)
(* the imageset text codec (internal/imageset).                            *)
(*                                                                         *)
EXTENDS Integers, Sequences, FiniteSets, TLC

VARIABLES
    \* ---- packer.Pack ----
    images,       \* the caller's []ImageInfo
    cfg,          \* the caller's Config
    pc,           \* position inside Pack
    imgs,         \* Pack's sorted copy of images
    atlasW,       \* w returned by findOptimalSize
    atlasH,       \* h returned by findOptimalSize
    bin,          \* the maxRects of the final placement
    placements,   \* []Placement built so far
    outcome,      \* "none" | "ok" (a *Result) | "error"
    \* ---- edds.WriteEDDSWithMipmaps, edds.ReadEDDS ----
    eimg,         \* the image and mipmap limit handed to the writer
    lz,           \* what lz4.CompressBlockHC returned, per level and chunk
    efile,        \* the file on disk
    epc,          \* position inside the writer or ReadEDDS
    rhdr,         \* what readEDDSHeaders returned: header, dx10, format
    rpos,         \* read offset of the open file
    rlog,         \* how the two payload parses of ReadEDDS ended
    rmip,         \* mipData, mipWidth, mipHeight
    eres,         \* what ReadEDDS returned
    \* ---- edds.decompressBlock ----
    dblock,       \* the *Block argument
    dexpected,    \* expectedUncompressedSize
    dec,          \* the decoder: reader, outIdx, dictSize, targetSize
    \* ---- imageset.Write, imageset.ReadFile ----
    entity,       \* the *ImageSetClass handed to Write
    useCamelCase, \* the casing mode handed to Write
    text,         \* the lines of the written file
    ipc,          \* position inside Write or ReadFile
    rd,           \* ReadFile's locals: lineNo, is, the section flags, err
    \* ---- dds.WriteMagic, dds.WriteHeader, dds.ReadHeader ----
    hmade,        \* the *Header that CreateHeaderRGBA8 returned
    hbytes,       \* the bytes handed to ReadHeader
    hres,         \* what ReadHeader returned
    \* ---- bcn.encodeBlockBC1/BC3, bcn.decodeBlockBC1/BC3 ----
    bsrc,         \* the [16]ColorRGBA block of the source image
    bformat,      \* "BC1" | "BC3"
    bdata,        \* the encoded block, <<>> when none is pending
    bout,         \* the decoded blocks so far, one per round
    \* ---- NormalizeName ----
    ninput,       \* the input string
    nsnake,       \* NormalizeName(input, false), once called
    ncamel,       \* NormalizeName(input, true), once called
    ndone,        \* the modes NormalizeName was called with
    \* ---- a Flags line handed to imageset.ReadFile ----
    fline,        \* the words and the separators of the Flags value
    \* ---- cli.runPack, run twice on the same input ----
    rfiles,       \* imageFiles, as read from the input directory
    rcamel,       \* opts.Camel
    rcfg,         \* the packer.Config made of opts.Packing
    rsorted,      \* what sort.Slice makes of the images in this build
    rpc,          \* position inside runPack
    rerr,         \* the error runPack returned, "" for nil
    rresult,      \* what packer.Pack returned
    rdisk,        \* the output directory: the imageset and the EDDS file
    rruns,        \* the outcome of every finished run
    \* ---- a maxRects bin under a sequence of Insert calls ----
    mbin,         \* the *maxRects
    mrule,        \* the Rule of the calls
    mcall,        \* the last call: its arguments, its result, the bin before it
    \* ---- the rolling dictionary of edds.decompressBlock ----
    rollDict,     \* dict, the 64 KiB buffer, as runs of output positions
    rollSize,     \* dictSize
    rollOut,      \* outIdx
    rollTarget,   \* targetSize
    rollGiven,    \* the last UncompressBlockWithDict: which, outIdx, dict[:dictSize]
    \* ---- cli.runPack, run after run on one output directory ----
    skInputs,     \* the content of the input files, as a version number
    skOpts,       \* opts.Skip and opts.Force of the run
    skPc,         \* position inside runPack, "idle" between two runs
    skHash,       \* inputsHash
    skDisk,       \* what the .imageset, the .edds and the .imagehash hold
    skRes         \* how the last run ended

packVars == <<images, cfg, pc, imgs, atlasW, atlasH, bin, placements, outcome>>

eddsVars == <<eimg, lz, efile, epc, rhdr, rpos, rlog, rmip, eres>>

lz4Vars == <<dblock, dexpected, dec>>

setVars == <<entity, useCamelCase, text, ipc, rd>>

hdrVars == <<hmade, hbytes, hres>>

bcnVars == <<bsrc, bformat, bdata, bout>>

nameVars == <<ninput, nsnake, ncamel, ndone>>

flagVars == <<fline>>

runVars == <<rfiles, rcamel, rcfg, rsorted, rpc, rerr, rresult, rdisk, rruns>>

binVars == <<mbin, mrule, mcall>>

rollVars == <<rollDict, rollSize, rollOut, rollTarget, rollGiven>>

skipVars == <<skInputs, skOpts, skPc, skHash, skDisk, skRes>>

vars == <<packVars, eddsVars, lz4Vars, setVars, hdrVars, bcnVars, nameVars, flagVars, runVars, binVars, rollVars, skipVars>>

\* the codecs before anything was handed to them
Idle == "idle"

IdlePack ==
    /\ images = <<>> /\ cfg = Idle /\ pc = Idle /\ imgs = <<>>
    /\ atlasW = 0 /\ atlasH = 0 /\ bin = Idle /\ placements = <<>>
    /\ outcome = Idle

\* no image, no file, no result, no decoder yet
NoImage == [W |-> -1, H |-> -1, maxMipMaps |-> -1]

NoFile == [header |-> Idle, dx10 |-> -1, items |-> <<>>]

NoResult == [status |-> "none", why |-> "", w |-> 0, h |-> 0, id |-> ""]

NoDecoder ==
    [status |-> "idle", why |-> "", rest |-> <<>>, rlen |-> 0, outIdx |-> 0,
     dictSize |-> 0, targetSize |-> 0, id |-> ""]

IdleEdds ==
    /\ eimg = NoImage /\ lz = <<>> /\ efile = NoFile /\ epc = Idle
    /\ rhdr = Idle /\ rpos = 0 /\ rlog = Idle /\ rmip = Idle /\ eres = NoResult

IdleLz4 ==
    /\ dblock = Idle /\ dexpected = 0 /\ dec = NoDecoder

\* the zero value of ImageSetClass, and ReadFile's locals before its loop
ZeroImageSet ==
    [Name |-> <<>>, RefSize |-> <<0, 0>>, Textures |-> <<>>, Images |-> <<>>,
     Groups |-> <<>>]

NewReader ==
    [lineNo |-> 0, is |-> ZeroImageSet, inImages |-> FALSE, inGroups |-> FALSE,
     inGroupImages |-> FALSE, curGroup |-> <<>>, curDef |-> <<>>, inDef |-> FALSE,
     err |-> ""]

IdleSet ==
    /\ entity = ZeroImageSet /\ useCamelCase = FALSE /\ text = <<>>
    /\ ipc = Idle /\ rd = NewReader

IdleHdr ==
    /\ hmade = Idle /\ hbytes = <<>> /\ hres = Idle

IdleBcn ==
    /\ bsrc = <<>> /\ bformat = Idle /\ bdata = <<>> /\ bout = <<>>

IdleName ==
    /\ ninput = <<>> /\ nsnake = <<>> /\ ncamel = <<>> /\ ndone = {}

\* no Flags line
NoFlags == [words |-> <<>>, seps |-> <<>>]

IdleFlags == fline = NoFlags

\* no file of the three exists
EmptyDir == [imageset |-> 0, edds |-> 0, cache |-> 0]

NoOpts == [Skip |-> FALSE, Force |-> FALSE]

IdleSkip ==
    /\ skInputs = 0 /\ skOpts = NoOpts /\ skPc = Idle /\ skHash = 0
    /\ skDisk = EmptyDir /\ skRes = Idle

NoGiven == [nth |-> 0, at |-> -1, dict |-> <<>>]

IdleRoll ==
    /\ rollDict = <<>> /\ rollSize = 0 /\ rollOut = 0 /\ rollTarget = 0 /\ rollGiven = NoGiven

\* no Result yet, and an empty output directory
NoPack == [err |-> FALSE, Width |-> 0, Height |-> 0, Placements |-> <<>>]

NoDisk == [imageset |-> <<>>, edds |-> NoPack]

IdleRun ==
    /\ rfiles = <<>> /\ rcamel = FALSE /\ rcfg = Idle /\ rsorted = <<>> /\ rpc = Idle
    /\ rerr = "" /\ rresult = NoPack /\ rdisk = NoDisk /\ rruns = <<>>

-----------------------------------------------------------------------------
(* Generic helpers                                                         *)

Max2(a, b) == IF a > b THEN a ELSE b
Min2(a, b) == IF a < b THEN a ELSE b

\* removeAt: the slice without its i-th element (1-based here)
removeAt(s, i) ==
    IF i < 1 \/ i > Len(s) THEN s
    ELSE [k \in 1..(Len(s) - 1) |-> IF k < i THEN s[k] ELSE s[k + 1]]

-----------------------------------------------------------------------------
(* Bounds of the packer inputs                                             *)

MaxImages == 2
MaxDim == 3

\* Rules (iota order of the source)
BestShortSideFit == 0
BestLongSideFit == 1
BestAreaFit == 2
BottomLeft == 3
ContactPoint == 4

\* 1<<30, the initial score of Insert
ScoreInf == 1073741824

ImageNames == <<"a", "b", "c", "d">>

\* every list of at most MaxImages images, image k named ImageNames[k]
ImageLists ==
    UNION { [1..n -> [Width : 1..MaxDim, Height : 1..MaxDim]] : n \in 0..MaxImages }

NamedList(l) ==
    [k \in 1..Len(l) |-> [Name |-> ImageNames[k], Width |-> l[k].Width, Height |-> l[k].Height]]

\* AspectPenalty is held in quarters (1 stands for 0.25)
ValidConfigs ==
    [MinSize : {2, 3}, MaxSize : {4, 8}, Gap : {0, 1}, Rule : 0..4,
     AspectPenalty : {1}, PreferHeight : BOOLEAN, ForceSquare : BOOLEAN,
     AllowRotate : BOOLEAN]

OddConfigs ==
    [MinSize : {0, 4, 8}, MaxSize : {0, 4}, Gap : {-1, 0}, Rule : {7},
     AspectPenalty : {0, 4}, PreferHeight : {FALSE}, ForceSquare : {FALSE},
     AllowRotate : {FALSE}]

Configs == ValidConfigs \cup OddConfigs

-----------------------------------------------------------------------------
(* internal/packer/util.go                                                 *)

RECURSIVE Pow2From(_, _)
Pow2From(p, n) == IF p < n THEN Pow2From(2 * p, n) ELSE p

nextPowerOfTwo(n) == IF n <= 0 THEN 1 ELSE Pow2From(1, n)

RECURSIVE Log2From(_, _, _)
Log2From(v, p, n) == IF v < n THEN Log2From(2 * v, p + 1, n) ELSE p

powerOfTwoCeil(n) == IF n <= 0 THEN 0 ELSE Log2From(1, 0, n)

absPowerDiff(a, b) ==
    LET d == powerOfTwoCeil(a) - powerOfTwoCeil(b)
    IN  IF d < 0 THEN -d ELSE d

-----------------------------------------------------------------------------
(* MaxRects bin                                                            *)

Rect(x, y, w, h, rot) == [X |-> x, Y |-> y, W |-> w, H |-> h, Rotated |-> rot]

newMaxRects(w, h, allowRotate) ==
    [w |-> w, h |-> h, allowRotate |-> allowRotate,
     used |-> <<>>, free |-> <<Rect(0, 0, w, h, FALSE)>>]

commonInterval(a0, a1, b0, b1) ==
    IF a1 <= b0 \/ b1 <= a0 THEN 0
    ELSE Min2(a1, b1) - Max2(a0, b0)

RECURSIVE ContactUsed(_, _, _, _, _, _)
ContactUsed(used, i, x, y, w, h) ==
    IF i > Len(used) THEN 0
    ELSE LET u == used[i]
             sx == IF u.X = x + w \/ u.X + u.W = x
                   THEN commonInterval(u.Y, u.Y + u.H, y, y + h) ELSE 0
             sy == IF u.Y = y + h \/ u.Y + u.H = y
                   THEN commonInterval(u.X, u.X + u.W, x, x + w) ELSE 0
         IN  sx + sy + ContactUsed(used, i + 1, x, y, w, h)

contactScore(m, x, y, w, h) ==
    (IF x = 0 \/ x + w = m.w THEN h ELSE 0)
    + (IF y = 0 \/ y + h = m.h THEN w ELSE 0)
    + ContactUsed(m.used, 1, x, y, w, h)

Abs(n) == IF n < 0 THEN -n ELSE n

\* the (pri, sec) pair of a rule from the two leftovers
ScoreBy(m, rule, fr, rw, rh, leftoverH, leftoverV) ==
    CASE rule = BestShortSideFit -> <<Min2(leftoverH, leftoverV), Max2(leftoverH, leftoverV)>>
      [] rule = BestLongSideFit -> <<Max2(leftoverH, leftoverV), Min2(leftoverH, leftoverV)>>
      [] rule = BestAreaFit -> <<fr.W * fr.H - rw * rh, Min2(leftoverH, leftoverV)>>
      [] rule = BottomLeft -> <<fr.Y + rh, fr.X>>
      [] rule = ContactPoint -> <<-contactScore(m, fr.X, fr.Y, rw, rh), 0>>
      [] OTHER -> <<ScoreInf, ScoreInf>>

score(m, rule, fr, rw, rh) ==
    ScoreBy(m, rule, fr, rw, rh, Abs(fr.W - rw), Abs(fr.H - rh))

Better(p, s, pri, sec) == p < pri \/ (p = pri /\ s < sec)

\* one comparison of Insert: the candidate replaces the best when it fits
\* and scores lower; acc = [found, best, pri, sec]
Consider(acc, fits, sc, rect) ==
    IF fits /\ Better(sc[1], sc[2], acc.pri, acc.sec)
    THEN [found |-> TRUE, best |-> rect, pri |-> sc[1], sec |-> sc[2]]
    ELSE acc

\* the body of Insert's loop for one free rectangle: unrotated, then rotated
ScanOne(m, fr, w, h, rule, acc) ==
    Consider(Consider(acc, fr.W >= w /\ fr.H >= h,
                      score(m, rule, fr, w, h), Rect(fr.X, fr.Y, w, h, FALSE)),
             m.allowRotate /\ fr.W >= h /\ fr.H >= w,
             score(m, rule, fr, h, w), Rect(fr.X, fr.Y, h, w, TRUE))

RECURSIVE InsertScan(_, _, _, _, _, _)
InsertScan(m, i, w, h, rule, acc) ==
    IF i > Len(m.free) THEN acc
    ELSE InsertScan(m, i + 1, w, h, rule, ScanOne(m, m.free[i], w, h, rule, acc))

Disjoint(used, fr) ==
    \/ used.X >= fr.X + fr.W
    \/ used.X + used.W <= fr.X
    \/ used.Y >= fr.Y + fr.H
    \/ used.Y + used.H <= fr.Y

\* splitFree without its right slab
splitFreeNoRight(fr, used) ==
    LET horiz == used.X < fr.X + fr.W /\ used.X + used.W > fr.X
        vert == used.Y < fr.Y + fr.H /\ used.Y + used.H > fr.Y
        top == IF horiz /\ used.Y > fr.Y /\ used.Y < fr.Y + fr.H
               THEN <<Rect(fr.X, fr.Y, fr.W, used.Y - fr.Y, FALSE)>> ELSE <<>>
        bottom == IF horiz /\ used.Y + used.H < fr.Y + fr.H
                  THEN <<Rect(fr.X, used.Y + used.H, fr.W,
                              fr.Y + fr.H - (used.Y + used.H), FALSE)>> ELSE <<>>
        left == IF vert /\ used.X > fr.X /\ used.X < fr.X + fr.W
                THEN <<Rect(fr.X, fr.Y, used.X - fr.X, fr.H, FALSE)>> ELSE <<>>
    IN  top \o bottom \o left

\* splitFree: the rectangles appended for a free rectangle that meets used
\* (the caller removes the free rectangle itself when any are reported)
splitFree(fr, used) ==
    LET horiz == used.X < fr.X + fr.W /\ used.X + used.W > fr.X
        vert == used.Y < fr.Y + fr.H /\ used.Y + used.H > fr.Y
        top == IF horiz /\ used.Y > fr.Y /\ used.Y < fr.Y + fr.H
               THEN <<Rect(fr.X, fr.Y, fr.W, used.Y - fr.Y, FALSE)>> ELSE <<>>
        bottom == IF horiz /\ used.Y + used.H < fr.Y + fr.H
                  THEN <<Rect(fr.X, used.Y + used.H, fr.W,
                              fr.Y + fr.H - (used.Y + used.H), FALSE)>> ELSE <<>>
        left == IF vert /\ used.X > fr.X /\ used.X < fr.X + fr.W
                THEN <<Rect(fr.X, fr.Y, used.X - fr.X, fr.H, FALSE)>> ELSE <<>>
        right == IF vert /\ used.X + used.W < fr.X + fr.W
                 THEN <<Rect(used.X + used.W, fr.Y,
                             fr.X + fr.W - (used.X + used.W), fr.H, FALSE)>> ELSE <<>>
    IN  top \o bottom \o left \o right

\* the loop of place: split every free rectangle that meets used
RECURSIVE PlaceLoop(_, _, _)
PlaceLoop(free, i, used) ==
    IF i > Len(free) THEN free
    ELSE IF Disjoint(used, free[i]) THEN PlaceLoop(free, i + 1, used)
    ELSE PlaceLoop(removeAt(free \o splitFree(free[i], used), i), i, used)

containedIn(a, b) ==
    a.X >= b.X /\ a.Y >= b.Y /\ a.X + a.W <= b.X + b.W /\ a.Y + a.H <= b.Y + b.H

RECURSIVE PruneLoop(_, _, _)
PruneLoop(free, i, j) ==
    IF i > Len(free) THEN free
    ELSE IF j > Len(free) THEN PruneLoop(free, i + 1, i + 2)
    ELSE IF containedIn(free[i], free[j]) THEN PruneLoop(removeAt(free, i), i, i + 1)
    ELSE IF containedIn(free[j], free[i]) THEN PruneLoop(removeAt(free, j), i, j)
    ELSE PruneLoop(free, i, j + 1)

\* pruneFree that removes nothing
pruneFreeNothing(free) == free

pruneFree(free) == PruneLoop(free, 1, 2)

place(m, used) ==
    [m EXCEPT !.free = pruneFree(PlaceLoop(m.free, 1, used)),
              !.used = Append(m.used, used)]

\* the end of Insert: failure, or the best rectangle placed
InsertEnd(m, acc) ==
    IF ~acc.found
    THEN [ok |-> FALSE, rect |-> Rect(0, 0, 0, 0, FALSE), bin |-> m]
    ELSE [ok |-> TRUE, rect |-> acc.best, bin |-> place(m, acc.best)]

\* Insert: [ok, rect, bin] with bin the receiver after the call
Insert(m, w, h, rule) ==
    InsertEnd(m, InsertScan(m, 1, w, h, rule,
                            [found |-> FALSE, best |-> Rect(0, 0, 0, 0, FALSE),
                             pri |-> ScoreInf, sec |-> ScoreInf]))

-----------------------------------------------------------------------------
(* sortImagesForPacking, findOptimalSize, canFitMaxRects                   *)

\* the less function handed to sort.Slice
SortLess(a, b, c) ==
    LET pa == [w |-> a.Width + 2 * c.Gap, h |-> a.Height + 2 * c.Gap]
        pb == [w |-> b.Width + 2 * c.Gap, h |-> b.Height + 2 * c.Gap]
        mi == Max2(pa.w, pa.h)
        mj == Max2(pb.w, pb.h)
        ai == pa.w * pa.h
        aj == pb.w * pb.h
    IN  IF mi # mj THEN mi > mj
        ELSE IF ai # aj THEN ai > aj
        ELSE IF pa.h # pb.h THEN pa.h > pb.h
        ELSE pa.w > pb.w

IndexPerms(n) == {p \in [1..n -> 1..n] : \A i, j \in 1..n : i # j => p[i] # p[j]}

\* a sort that may repeat one element in place of another
sortImagesRepeating(l, c) ==
    {s \in {[k \in 1..Len(l) |-> l[p[k]]] : p \in [1..Len(l) -> 1..Len(l)]} :
        \A i, j \in 1..Len(l) : i < j => ~SortLess(s[j], s[i], c)}

\* sort.Slice is not a stable sort: every ordering consistent with the less
\* function is a possible result
sortImagesForPacking(l, c) ==
    {s \in {[k \in 1..Len(l) |-> l[p[k]]] : p \in IndexPerms(Len(l))} :
        \A i, j \in 1..Len(l) : i < j => ~SortLess(s[j], s[i], c)}

EffectiveRule(c) ==
    IF c.Rule < BestShortSideFit \/ c.Rule > ContactPoint THEN BestShortSideFit ELSE c.Rule

\* an Insert of the image without its halo
InsertImageBare(m, im, c, rule) == Insert(m, im.Width, im.Height, rule)

InsertImage(m, im, c, rule) == Insert(m, im.Width + 2 * c.Gap, im.Height + 2 * c.Gap, rule)

RECURSIVE FitLoop(_, _, _, _, _)
FitNext(l, i, r, c, rule) == IF ~r.ok THEN FALSE ELSE FitLoop(l, i + 1, r.bin, c, rule)

FitLoop(l, i, m, c, rule) ==
    IF i > Len(l) THEN TRUE
    ELSE FitNext(l, i, InsertImage(m, l[i], c, rule), c, rule)

canFitMaxRects(l, w, h, c, rule) == FitLoop(l, 1, newMaxRects(w, h, c.AllowRotate), c, rule)

RECURSIVE MaxPaddedW(_, _, _)
MaxPaddedW(l, i, c) ==
    IF i > Len(l) THEN 0 ELSE Max2(l[i].Width + 2 * c.Gap, MaxPaddedW(l, i + 1, c))

RECURSIVE MaxPaddedH(_, _, _)
MaxPaddedH(l, i, c) ==
    IF i > Len(l) THEN 0 ELSE Max2(l[i].Height + 2 * c.Gap, MaxPaddedH(l, i + 1, c))

\* the start size of the search
GrowTo(size, side) == IF side > size THEN nextPowerOfTwo(side) ELSE size

StartSize(l, c) == GrowTo(GrowTo(c.MinSize, MaxPaddedW(l, 1, c)), MaxPaddedH(l, 1, c))

\* s, 2s, 4s, ... up to max
RECURSIVE Doublings(_, _)
Doublings(s, max) == IF s > max THEN <<>> ELSE <<s>> \o Doublings(2 * s, max)

\* the (w, h) pairs in the order the loops of findOptimalSize try them
RECURSIVE PairsOf(_, _, _)
PairsOf(outer, inner, widthOuter) ==
    IF outer = <<>> THEN <<>>
    ELSE [k \in 1..Len(inner) |->
             IF widthOuter THEN <<Head(outer), inner[k]>> ELSE <<inner[k], Head(outer)>>]
         \o PairsOf(Tail(outer), inner, widthOuter)

SquarePairs(d) == [k \in 1..Len(d) |-> <<d[k], d[k]>>]

CandidatesOf(d, c) == IF c.ForceSquare THEN SquarePairs(d) ELSE PairsOf(d, d, c.PreferHeight)

Candidates(size, c) == CandidatesOf(Doublings(size, c.MaxSize), c)

\* float64(w*h) * (1 + AspectPenalty*(aspect-1)), times 4, as a fraction
ScoreNum(w, h, c) == w * h * (4 * Min2(w, h) + c.AspectPenalty * (Max2(w, h) - Min2(w, h)))
ScoreDen(w, h) == 4 * Min2(w, h)

\* the comparison at the end of try: the candidate replaces the best on a
\* lower score, or on an equal one when the preference points its way
Keep(acc, w, h, num, den, c) ==
    IF \/ ~acc.has
       \/ num * acc.den < acc.num * den
       \/ /\ num * acc.den = acc.num * den
          /\ (~c.PreferHeight /\ w >= h) \/ (c.PreferHeight /\ h >= w)
    THEN [has |-> TRUE, w |-> w, h |-> h, num |-> num, den |-> den]
    ELSE acc

\* the closure try of findOptimalSize applied to the best so far
try(acc, w, h, l, c, rule) ==
    IF w > c.MaxSize \/ h > c.MaxSize THEN acc
    ELSE IF c.ForceSquare /\ w # h THEN acc
    ELSE IF ~c.ForceSquare /\ absPowerDiff(w, h) > 1 THEN acc
    ELSE IF ~canFitMaxRects(l, w, h, c, rule) THEN acc
    ELSE Keep(acc, w, h, ScoreNum(w, h, c), ScoreDen(w, h), c)

RECURSIVE TryAll(_, _, _, _, _, _)
TryAll(cands, i, acc, l, c, rule) ==
    IF i > Len(cands) THEN acc
    ELSE TryAll(cands, i + 1, try(acc, cands[i][1], cands[i][2], l, c, rule), l, c, rule)

SearchFrom(size, l, c) ==
    TryAll(Candidates(size, c), 1,
           [has |-> FALSE, w |-> size, h |-> size, num |-> 0, den |-> 1],
           l, c, EffectiveRule(c))

\* findOptimalSize: a record whose w and h are the returned pair
findOptimalSize(l, c) == SearchFrom(StartSize(l, c), l, c)

\* validateConfig without its second test
validateConfigSizesOnly(c) ==
    ~(c.MinSize <= 0 \/ c.MaxSize <= 0 \/ c.MinSize > c.MaxSize)

validateConfig(c) ==
    ~(c.MinSize <= 0 \/ c.MaxSize <= 0 \/ c.MinSize > c.MaxSize) /\ ~(c.Gap < 0)

-----------------------------------------------------------------------------
(* Pack                                                                    *)

NoBin == newMaxRects(0, 0, FALSE)

NoCall == [w |-> 0, h |-> 0, ok |-> FALSE, rect |-> Rect(0, 0, 0, 0, FALSE), before |-> NoBin]

IdleBin == mbin = NoBin /\ mrule = -1 /\ mcall = NoCall

InitPack ==
    /\ images \in {NamedList(l) : l \in ImageLists}
    /\ cfg \in Configs
    /\ pc = "start"
    /\ imgs = <<>>
    /\ atlasW = 0
    /\ atlasH = 0
    /\ bin = NoBin
    /\ placements = <<>>
    /\ outcome = "none"
    /\ IdleEdds
    /\ IdleLz4
    /\ IdleSet
    /\ IdleHdr
    /\ IdleBcn
    /\ IdleName
    /\ IdleFlags
    /\ IdleRun
    /\ IdleBin
    /\ IdleRoll
    /\ IdleSkip

\* pack.go 11-13: the configuration is refused
PackInvalidConfig ==
    /\ pc = "start"
    /\ ~validateConfig(cfg)
    /\ pc' = "done"
    /\ outcome' = "error"
    /\ UNCHANGED <<images, cfg, imgs, atlasW, atlasH, bin, placements>>
    /\ UNCHANGED <<eddsVars, lz4Vars, setVars, hdrVars, bcnVars, nameVars, flagVars, runVars, binVars, rollVars, skipVars>>

\* pack.go 14-18: no images, a MinSize x MinSize atlas
PackEmpty ==
    /\ pc = "start"
    /\ validateConfig(cfg)
    /\ Len(images) = 0
    /\ atlasW' = cfg.MinSize
    /\ atlasH' = cfg.MinSize
    /\ pc' = "done"
    /\ outcome' = "ok"
    /\ UNCHANGED <<images, cfg, imgs, bin, placements>>
    /\ UNCHANGED <<eddsVars, lz4Vars, setVars, hdrVars, bcnVars, nameVars, flagVars, runVars, binVars, rollVars, skipVars>>

\* pack.go 20-22: copy and sort
PackSort ==
    /\ pc = "start"
    /\ validateConfig(cfg)
    /\ Len(images) > 0
    /\ imgs' \in sortImagesForPacking(images, cfg)
    /\ pc' = "sorted"
    /\ UNCHANGED <<images, cfg, atlasW, atlasH, bin, placements, outcome>>
    /\ UNCHANGED <<eddsVars, lz4Vars, setVars, hdrVars, bcnVars, nameVars, flagVars, runVars, binVars, rollVars, skipVars>>

\* PackSize without the comparison against MaxSize
PackSizeUnchecked ==
    /\ pc = "sorted"
    /\ \E best \in {findOptimalSize(imgs, cfg)} :
           /\ atlasW' = best.w
           /\ atlasH' = best.h
           /\ pc' = "placing"
           /\ outcome' = outcome
           /\ bin' = newMaxRects(best.w, best.h, cfg.AllowRotate)
    /\ UNCHANGED <<images, cfg, imgs, placements>>
    /\ UNCHANGED <<eddsVars, lz4Vars, setVars, hdrVars, bcnVars, nameVars, flagVars, runVars, binVars, rollVars, skipVars>>

\* pack.go 24-29: choose the size, refuse one beyond MaxSize, make the bin
PackSize ==
    /\ pc = "sorted"
    /\ \E best \in {findOptimalSize(imgs, cfg)} :
           /\ atlasW' = best.w
           /\ atlasH' = best.h
           /\ IF best.w > cfg.MaxSize \/ best.h > cfg.MaxSize
              THEN /\ pc' = "done"
                   /\ outcome' = "error"
                   /\ bin' = bin
              ELSE /\ pc' = "placing"
                   /\ outcome' = outcome
                   /\ bin' = newMaxRects(best.w, best.h, cfg.AllowRotate)
    /\ UNCHANGED <<images, cfg, imgs, placements>>
    /\ UNCHANGED <<eddsVars, lz4Vars, setVars, hdrVars, bcnVars, nameVars, flagVars, runVars, binVars, rollVars, skipVars>>

\* the Placement Pack records for an image and the rectangle Insert returned
PlacementOf(im, rect, c) ==
    [Name |-> im.Name, X |-> rect.X + c.Gap, Y |-> rect.Y + c.Gap,
     Width |-> im.Width, Height |-> im.Height, Rotated |-> rect.Rotated]

\* pack.go 39-67: one iteration of the placement loop
PackPlace ==
    /\ pc = "placing"
    /\ Len(placements) < Len(imgs)
    /\ \E im \in {imgs[Len(placements) + 1]} :
         \E r \in {InsertImage(bin, im, cfg, EffectiveRule(cfg))} :
           IF ~r.ok
           THEN /\ pc' = "done"
                /\ outcome' = "error"
                /\ UNCHANGED <<bin, placements>>
           ELSE /\ bin' = r.bin
                /\ placements' = Append(placements, PlacementOf(im, r.rect, cfg))
                /\ UNCHANGED <<pc, outcome>>
    /\ UNCHANGED <<images, cfg, imgs, atlasW, atlasH>>
    /\ UNCHANGED <<eddsVars, lz4Vars, setVars, hdrVars, bcnVars, nameVars, flagVars, runVars, binVars, rollVars, skipVars>>

\* pack.go 69-74: every image placed, the Result is returned
PackReturn ==
    /\ pc = "placing"
    /\ Len(placements) = Len(imgs)
    /\ pc' = "done"
    /\ outcome' = "ok"
    /\ UNCHANGED <<images, cfg, imgs, atlasW, atlasH, bin, placements>>
    /\ UNCHANGED <<eddsVars, lz4Vars, setVars, hdrVars, bcnVars, nameVars, flagVars, runVars, binVars, rollVars, skipVars>>

NextPack ==
    \/ PackInvalidConfig
    \/ PackEmpty
    \/ PackSort
    \/ PackSize
    \/ PackPlace
    \/ PackReturn

SpecPack == InitPack /\ [][NextPack]_vars

-----------------------------------------------------------------------------
(* Claims about Pack                                                       *)

Returned == pc = "done" /\ outcome = "ok"

InAtlas(p) ==
    /\ 0 <= p.X
    /\ 0 <= p.Y
    /\ p.X + p.Width <= atlasW
    /\ p.Y + p.Height <= atlasH

Intersect(a, b) ==
    /\ a.X < b.X + b.Width
    /\ a.X + a.Width > b.X
    /\ a.Y < b.Y + b.Height
    /\ a.Y + a.Height > b.Y

\* C1: every Placement of a successful Pack lies inside the atlas as the
\* rectangle (X, Y, Width, Height), and no two of them intersect, for every
\* accepted Config, AllowRotate included.
C1_PlacementsInBoundsDisjoint ==
    Returned =>
        /\ \A i \in 1..Len(placements) : InAtlas(placements[i])
        /\ \A i, j \in 1..Len(placements) :
               i < j => ~Intersect(placements[i], placements[j])

\* the rectangle an image really occupies: swapped when it was rotated
Drawn(p) ==
    IF p.Rotated THEN [p EXCEPT !.Width = p.Height, !.Height = p.Width] ELSE p

\* the rectangles drawn into the atlas lie inside it and are disjoint
DrawnInBoundsDisjoint ==
    Returned =>
        /\ \A i \in 1..Len(placements) : InAtlas(Drawn(placements[i]))
        /\ \A i, j \in 1..Len(placements) :
               i < j => ~Intersect(Drawn(placements[i]), Drawn(placements[j]))

\* C2: a successful Pack returns exactly one Placement per input image, with
\* that image's Name and size, whatever the input order; no images give a
\* MinSize x MinSize atlas without placements.
C2_OnePlacementPerInput ==
    Returned =>
        /\ Len(placements) = Len(images)
        /\ \A i \in 1..Len(images) :
               \E j \in 1..Len(placements) :
                  /\ placements[j].Name = images[i].Name
                  /\ placements[j].Width = images[i].Width
                  /\ placements[j].Height = images[i].Height
                  /\ \A k \in 1..Len(placements) :
                         placements[k].Name = images[i].Name => k = j
        /\ (images = <<>> =>
               atlasW = cfg.MinSize /\ atlasH = cfg.MinSize /\ placements = <<>>)

\* a Pack that reordered two images and placed both
C2_Witness ==
    /\ Returned
    /\ Len(images) = 2
    /\ imgs # images
    /\ Len(placements) = 2

IsPow2(n) == n >= 1 /\ nextPowerOfTwo(n) = n

\* C3: the size of a successful Pack is a power of two on each side, within
\* [MinSize, MaxSize], the two logarithms at most 1 apart; with ForceSquare
\* it is square and no smaller than the largest padded image side.
C3_PowerOfTwoSize ==
    Returned =>
        /\ IsPow2(atlasW) /\ IsPow2(atlasH)
        /\ cfg.MinSize <= atlasW /\ atlasW <= cfg.MaxSize
        /\ cfg.MinSize <= atlasH /\ atlasH <= cfg.MaxSize
        /\ absPowerDiff(atlasW, atlasH) <= 1
        /\ (cfg.ForceSquare =>
               /\ atlasW = atlasH
               /\ atlasW >= MaxPaddedW(images, 1, cfg)
               /\ atlasW >= MaxPaddedH(images, 1, cfg))

\* some size tried by findOptimalSize accepts every image
SeqRange(q) == {q[k] : k \in 1..Len(q)}

Feasible(l, c) ==
    \E cand \in SeqRange(Candidates(StartSize(l, c), c)) :
        /\ cand[1] <= c.MaxSize /\ cand[2] <= c.MaxSize
        /\ (c.ForceSquare \/ absPowerDiff(cand[1], cand[2]) <= 1)
        /\ canFitMaxRects(l, cand[1], cand[2], c, EffectiveRule(c))

\* C4: when no size up to MaxSize accepts every image Pack ends in an error,
\* and a returned Result has every input placed and no side beyond MaxSize.
C4_InfeasibleIsError ==
    /\ (pc = "done" /\ validateConfig(cfg) /\ images # <<>> /\ ~Feasible(imgs, cfg))
           => outcome = "error"
    /\ Returned =>
           /\ Len(placements) = Len(imgs)
           /\ Len(imgs) = Len(images)
           /\ atlasW <= cfg.MaxSize
           /\ atlasH <= cfg.MaxSize

\* an infeasible input ended in an error
C4_Witness ==
    /\ pc = "done"
    /\ outcome = "error"
    /\ validateConfig(cfg)
    /\ images # <<>>
    /\ ~Feasible(imgs, cfg)

-----------------------------------------------------------------------------
(* internal/edds/edds.go: the block codec                                  *)
(*                                                                         *)
(* Bytes are held as runs: a "raw" run of len opaque bytes, a block table  *)
(* "entry" (magic, int32 size), or a chunk "stream" as decompressBlock     *)
(* frames it: an optional u32 prefix, chunk records (u24 cSize, u8 flags,  *)
(* cSize payload bytes), then tail further bytes; cut bytes are missing    *)
(* from the end of the last payload.  A chunk's dec is what                *)
(* lz4.UncompressBlockWithDict makes of its payload: the decoded length,   *)
(* or -1 for an error.  p3 is the u24 at the start of the first payload.   *)

BlockMagicCOPY == "COPY"
BlockMagicLZ4 == "LZ4 "
ChunkSize == 65536
CopyThreshold == 1024
dictCap == 65536
maxInt32 == 2147483647
MaxChunkField == 8388607
SaneChunk == 1048576
Word24 == 16777216

Raw(n, id) == [kind |-> "raw", len |-> n, id |-> id]

Junk(n) == [kind |-> "junk", len |-> n, id |-> "junk"]

Entry(magic, size) ==
    [kind |-> "entry", magic |-> magic, size |-> size, id |-> "entry"]

Chunk(cSize, flags, d) == [cSize |-> cSize, flags |-> flags, dec |-> d]

Stream(prefix, chunks, cut, tail, p3, id) ==
    [kind |-> "stream", prefix |-> prefix, chunks |-> chunks, cut |-> cut,
     tail |-> tail, p3 |-> p3, id |-> id]

RECURSIVE ChunksLen(_)
ChunksLen(cs) ==
    IF cs = <<>> THEN 0 ELSE 4 + Head(cs).cSize + ChunksLen(Tail(cs))

\* len(b)
ByteLen(b) ==
    CASE b.kind = "entry" -> 8
      [] b.kind = "stream" ->
            (IF b.prefix # -1 THEN 4 ELSE 0) + ChunksLen(b.chunks) - b.cut + b.tail
      [] OTHER -> b.len

\* float64(c) > float64(n)*0.85, exact for integers below 2^31
Exceeds85(c, n) == c * 100 > n * 85

NChunks(n) == (n + ChunkSize - 1) \div ChunkSize

\* len(srcChunk) of the j-th chunk (from 1) of n bytes
ChunkLen(n, j) == Min2(ChunkSize, n - (j - 1) * ChunkSize)

\* CopyBlock with a size four bytes too large
CopyBlockOversized(data) ==
    [err |-> FALSE, Magic |-> BlockMagicCOPY, Size |-> ByteLen(data) + 4,
     UncompressedSize |-> 0, Data |-> data]

\* edds.go 65-70, 102-107, 139-144: the payload stored as it is
CopyBlock(data) ==
    [err |-> FALSE, Magic |-> BlockMagicCOPY, Size |-> ByteLen(data),
     UncompressedSize |-> 0, Data |-> data]

BlockError == [err |-> TRUE, Magic |-> "", Size |-> 0, UncompressedSize |-> 0,
               Data |-> Raw(0, "")]

\* CompressEnd counting the compressed payloads without the chunk headers
CompressEndLoose(data, cs) ==
    IF 4 + ChunksLen(cs) > maxInt32 THEN BlockError
    ELSE IF Exceeds85(4 + ChunksLen(cs) - 4 * Len(cs), ByteLen(data)) THEN CopyBlock(data)
    ELSE [err |-> FALSE, Magic |-> BlockMagicLZ4, Size |-> 4 + ChunksLen(cs),
          UncompressedSize |-> ByteLen(data),
          Data |-> Stream(-1, cs, 0, 0, 0, data.id)]

\* edds.go 130-152: the chunk stream is complete
CompressEnd(data, cs) ==
    IF 4 + ChunksLen(cs) > maxInt32 THEN BlockError
    ELSE IF Exceeds85(4 + ChunksLen(cs), ByteLen(data)) THEN CopyBlock(data)
    ELSE [err |-> FALSE, Magic |-> BlockMagicLZ4, Size |-> 4 + ChunksLen(cs),
          UncompressedSize |-> ByteLen(data),
          Data |-> Stream(-1, cs, 0, 0, 0, data.id)]

\* edds.go 82-128: chunk j of the loop; cns[j] is what CompressBlockHC returned
RECURSIVE CompressLoop(_, _, _, _)
CompressLoop(data, cns, j, cs) ==
    IF (j - 1) * ChunkSize >= ByteLen(data) THEN CompressEnd(data, cs)
    ELSE IF cns[j] = 0 \/ Exceeds85(cns[j], ChunkLen(ByteLen(data), j))
    THEN CopyBlock(data)
    ELSE IF cns[j] > MaxChunkField THEN BlockError
    ELSE CompressLoop(data, cns, j + 1,
             Append(cs, Chunk(cns[j],
                              IF j * ChunkSize >= ByteLen(data) THEN 128 ELSE 0,
                              ChunkLen(ByteLen(data), j))))

compressBlock(data, cns) ==
    IF ByteLen(data) > maxInt32 THEN BlockError
    ELSE IF ByteLen(data) < CopyThreshold THEN CopyBlock(data)
    ELSE CompressLoop(data, cns, 1, <<>>)

\* the body bytes writeBlockData writes for a block
writeBlockData(block) ==
    IF block.Magic = BlockMagicLZ4
    THEN [block.Data EXCEPT !.prefix = block.UncompressedSize]
    ELSE block.Data

\* ---- decompressBlock ----

Decoder(status, why, rest, rlen, outIdx, dictSize, target, id) ==
    [status |-> status, why |-> why, rest |-> rest, rlen |-> rlen,
     outIdx |-> outIdx, dictSize |-> dictSize, targetSize |-> target, id |-> id]

DecodeError(why) == Decoder("err", why, <<>>, 0, 0, 0, 0, "")

\* binary.LittleEndian.Uint32(data[:4]) == v, for v below 2^31
FirstWordIs(data, v) ==
    IF data.prefix # -1 THEN data.prefix = v
    ELSE /\ data.chunks # <<>>
         /\ data.chunks[1].flags < 128
         /\ data.chunks[1].cSize + Word24 * data.chunks[1].flags = v

\* the u24 of data[4:7]
NextWord24(data) ==
    IF data.chunks = <<>> THEN 0
    ELSE IF data.prefix # -1 THEN data.chunks[1].cSize
    ELSE data.p3

\* edds.go 185-194: the first word is taken for an embedded target size
Strips(data, expected, target) ==
    /\ ByteLen(data) >= 8
    /\ (FirstWordIs(data, expected) \/ FirstWordIs(data, target))
    /\ NextWord24(data) > 0
    /\ NextWord24(data) < SaneChunk

\* the runs are framed as the decoder will read them
WellFramed(data, expected, target) ==
    /\ data.kind = "stream"
    /\ (data.prefix # -1) = Strips(data, expected, target)

TargetOf(block, expected) ==
    IF block.UncompressedSize > 0 THEN block.UncompressedSize ELSE expected

\* edds.go 181-204
DecodeStart(data, expected, target) ==
    IF ~WellFramed(data, expected, target) THEN DecodeError("misframed")
    ELSE IF data.prefix # -1
    THEN Decoder("run", "", data.chunks, ByteLen(data) - 4, 0, 0, data.prefix, data.id)
    ELSE Decoder("run", "", data.chunks, ByteLen(data), 0, 0, target, data.id)

\* edds.go 160-179
decompressBegin(block, expected) ==
    IF block.Magic = BlockMagicCOPY
    THEN IF ByteLen(block.Data) # expected THEN DecodeError("copysize")
         ELSE Decoder("ok", "", <<>>, 0, ByteLen(block.Data), 0, expected, block.Data.id)
    ELSE IF block.Magic # BlockMagicLZ4 THEN DecodeError("magic")
    ELSE IF TargetOf(block, expected) <= 0 THEN DecodeError("target")
    ELSE DecodeStart(block.Data, expected, TargetOf(block, expected))

\* edds.go 250-265: the rolling dictionary after n decoded bytes
DictAfter(dictSize, n) ==
    IF n >= dictCap THEN dictCap
    ELSE IF n <= dictCap - dictSize THEN dictSize + n
    ELSE dictCap

\* edds.go 267-279: after a chunk of n decoded bytes
ChunkEnd(d, c, n) ==
    IF c.flags \div 128 = 0
    THEN [d EXCEPT !.rest = Tail(d.rest), !.rlen = d.rlen - 4 - c.cSize,
                   !.outIdx = d.outIdx + n, !.dictSize = DictAfter(d.dictSize, n)]
    ELSE IF d.outIdx + n # d.targetSize THEN DecodeError("mismatch")
    ELSE IF d.rlen - 4 - c.cSize # 0 THEN DecodeError("leftover")
    ELSE [d EXCEPT !.status = "ok", !.rest = <<>>, !.rlen = 0,
                   !.outIdx = d.outIdx + n, !.dictSize = DictAfter(d.dictSize, n)]

\* ChunkBody without the check of the remaining output space
ChunkBodyNoOverrun(d, c) ==
    IF c.flags % 128 # 0 THEN DecodeError("flags")
    ELSE IF c.cSize <= 0 \/ c.cSize > d.rlen - 4 THEN DecodeError("size")
    ELSE IF c.dec = -1 \/ c.dec > ChunkSize
    THEN DecodeError("decode")
    ELSE ChunkEnd(d, c, c.dec)

\* edds.go 216-245: a chunk header c was read
ChunkBody(d, c) ==
    IF c.flags % 128 # 0 THEN DecodeError("flags")
    ELSE IF c.cSize <= 0 \/ c.cSize > d.rlen - 4 THEN DecodeError("size")
    ELSE IF d.targetSize - d.outIdx <= 0 THEN DecodeError("overrun")
    ELSE IF c.dec = -1 \/ c.dec > Min2(ChunkSize, d.targetSize - d.outIdx)
    THEN DecodeError("decode")
    ELSE ChunkEnd(d, c, c.dec)

\* edds.go 206-270: one iteration of the chunk loop
ChunkStep(d) ==
    IF d.rlen < 4 THEN DecodeError("truncated")
    ELSE IF d.rest = <<>> THEN DecodeError("misframed")
    ELSE ChunkBody(d, Head(d.rest))

RECURSIVE DecodeLoop(_)
DecodeLoop(d) == IF d.status = "run" THEN DecodeLoop(ChunkStep(d)) ELSE d

decompressBlock(block, expected) == DecodeLoop(decompressBegin(block, expected))

-----------------------------------------------------------------------------
(* internal/dds, internal/bcn: the header and the pixel formats            *)

Magic == "DDS "
HeaderSize == 124
PixelFormatSize == 32
Dx10Size == 20
MaxMipMapCount == 11

HeaderFlagsTexture == {"DCaps", "DHeight", "DWidth", "DPixelFormat"}

\* flag words are held as sets of flag names, masks as hexadecimal strings
CreateHeaderRGBA8(width, height, mipMapCount) ==
    [magic |-> Magic, Size |-> HeaderSize,
     Flags |-> HeaderFlagsTexture \cup {"DPitch"}
                 \cup (IF mipMapCount > 0 THEN {"DMipMapCount"} ELSE {}),
     Height |-> height, Width |-> width, PitchOrLinearSize |-> width * 4,
     Depth |-> 0, MipMapCount |-> mipMapCount,
     Reserved1 |-> <<"", "ENF1", "", "", "", "", "", "", "", "", "">>,
     pfSize |-> PixelFormatSize, pfFlags |-> {"PFAlphaPixels", "PFRGB"},
     FourCC |-> "", RGBBitCount |-> 32,
     RBitMask |-> "00ff0000", GBitMask |-> "0000ff00", BBitMask |-> "000000ff",
     ABitMask |-> "ff000000",
     Caps |-> {"CapsTexture"}
                \cup (IF mipMapCount > 0 THEN {"CapsComplex", "CapsMipMap"} ELSE {}),
     Caps2 |-> 0, Caps3 |-> 0, Caps4 |-> 0, Reserved2 |-> 0]

\* dds.ReadHeader accepts the 128 bytes
ReadHeader(h) ==
    /\ h.magic = Magic
    /\ h.Size = HeaderSize
    /\ h.pfSize = PixelFormatSize
    /\ h.Reserved2 = 0
    /\ HeaderFlagsTexture \subseteq h.Flags

\* dds.ReadHeaderDx10 reads 20 more bytes
HasDx10(h) == "PFFourCC" \in h.pfFlags /\ h.FourCC = "DX10"

mapDxgiFormat(dxgi) ==
    CASE dxgi = 71 -> "BC1" [] dxgi = 74 -> "BC2" [] dxgi = 77 -> "BC3"
      [] dxgi = 80 -> "BC4" [] dxgi = 83 -> "BC5" [] dxgi = 95 -> "BC6"
      [] dxgi = 98 -> "BC7" [] dxgi = 87 -> "BGRA8" [] dxgi = 28 -> "RGBA8"
      [] OTHER -> "UNKNOWN"

DetectFormat(h, dx10) ==
    IF dx10 # -1 THEN mapDxgiFormat(dx10)
    ELSE IF "PFFourCC" \in h.pfFlags
    THEN CASE h.FourCC = "DXT1" -> "BC1"
           [] h.FourCC \in {"DXT2", "DXT3"} -> "BC2"
           [] h.FourCC \in {"DXT4", "DXT5"} -> "BC3"
           [] h.FourCC \in {"ATI1", "BC4U", "BC4S"} -> "BC4"
           [] h.FourCC \in {"ATI2", "BC5U", "BC5S"} -> "BC5"
           [] OTHER -> "UNKNOWN"
    ELSE IF /\ "PFRGB" \in h.pfFlags
            /\ "PFAlphaPixels" \in h.pfFlags
            /\ h.RGBBitCount = 32
            /\ h.RBitMask = "000000ff" /\ h.GBitMask = "0000ff00"
            /\ h.BBitMask = "00ff0000" /\ h.ABitMask = "ff000000"
    THEN "RGBA8"
    ELSE IF /\ "PFRGB" \in h.pfFlags
            /\ "PFAlphaPixels" \in h.pfFlags
            /\ h.RGBBitCount = 32
            /\ h.RBitMask = "00ff0000" /\ h.GBitMask = "0000ff00"
            /\ h.BBitMask = "000000ff" /\ h.ABitMask = "ff000000"
    THEN "BGRA8"
    ELSE IF "PFLuminance" \in h.pfFlags /\ h.RGBBitCount = 8 THEN "RGBA8"
    ELSE "UNKNOWN"

ExpectedDataLength(format, width, height) ==
    CASE format \in {"BC1", "BC4"} ->
            ((width + 3) \div 4) * ((height + 3) \div 4) * 8
      [] format \in {"BC2", "BC3", "BC5", "BC6", "BC7"} ->
            ((width + 3) \div 4) * ((height + 3) \div 4) * 16
      [] format \in {"RGBA8", "BGRA8"} -> width * height * 4
      [] OTHER -> -1

\* bcn.ConvertToRGBA returns pixels for n bytes of the format
ConvertToRGBA(n, format, width, height) ==
    CASE format \in {"BC1", "BC2", "BC3"} -> n >= ExpectedDataLength(format, width, height)
      [] format \in {"RGBA8", "BGRA8"} -> TRUE
      [] OTHER -> FALSE

RECURSIVE Shr(_, _)
Shr(n, k) == IF k = 0 THEN n ELSE Shr(n \div 2, k - 1)

mipDimension(base, level) == Max2(1, Shr(base, level))

-----------------------------------------------------------------------------
(* internal/edds: WriteEDDSWithMipmaps                                     *)

RECURSIVE MipCountFrom(_, _, _)
MipCountFrom(w, h, count) ==
    IF w > 1 \/ h > 1
    THEN MipCountFrom(IF w > 1 THEN w \div 2 ELSE w, IF h > 1 THEN h \div 2 ELSE h,
                      count + 1)
    ELSE count

calculateMipMapCount(width, height) ==
    Min2(MaxMipMapCount, MipCountFrom(width, height, 1))

\* part_009 32-38
MipCountOf(img) ==
    Max2(1, IF img.maxMipMaps > 0
                /\ img.maxMipMaps < calculateMipMapCount(img.W, img.H)
            THEN img.maxMipMaps
            ELSE calculateMipMapCount(img.W, img.H))

\* generateMipmaps: the byte length of level i (0 is the largest)
MipLen(img, i) ==
    IF i = 0 THEN img.W * img.H * 4
    ELSE mipDimension(img.W, i) * mipDimension(img.H, i) * 4

MipName(i) == <<"mip0", "mip1", "mip2", "mip3", "mip4", "mip5", "mip6", "mip7",
                "mip8", "mip9", "mip10">>[i + 1]

\* dataToCompress of level i
MipData(img, i) == Raw(MipLen(img, i), MipName(i))

\* blocks[i] for i = 0 .. mipMapCount-1, held at index i+1
BlocksOf(img, cns) ==
    [k \in 1..MipCountOf(img) |-> compressBlock(MipData(img, k - 1), cns[k])]

\* the order of the table and of the bodies: level mipMapCount-1 first
WriteOrder(n) == [k \in 1..n |-> n + 1 - k]

TableOf(blocks) ==
    [k \in 1..Len(blocks) |->
        Entry(blocks[WriteOrder(Len(blocks))[k]].Magic,
              blocks[WriteOrder(Len(blocks))[k]].Size)]

BodiesOf(blocks) ==
    [k \in 1..Len(blocks) |-> writeBlockData(blocks[WriteOrder(Len(blocks))[k]])]

FileOf(header, dx10, items) == [header |-> header, dx10 |-> dx10, items |-> items]

\* part_009 40-108
WriteFile(img, blocks) ==
    FileOf(CreateHeaderRGBA8(img.W, img.H, Len(blocks)), -1,
           TableOf(blocks) \o BodiesOf(blocks))

WriteEDDSWithMipmaps(img, cns) == WriteFile(img, BlocksOf(img, cns))

-----------------------------------------------------------------------------
(* ReadEDDS and its helpers                                                *)

RECURSIVE RunsLen(_)
RunsLen(items) == IF items = <<>> THEN 0 ELSE ByteLen(Head(items)) + RunsLen(Tail(items))

\* the offset of the first byte after the DDS header and the DX10 header
DataStart(header) == 4 + HeaderSize + (IF HasDx10(header) THEN Dx10Size ELSE 0)

FileLen(file) == DataStart(file.header) + RunsLen(file.items)

ItemStart(file, k) == DataStart(file.header) + RunsLen(SubSeq(file.items, 1, k - 1))

ItemsAt(file, pos, n) ==
    {k \in 1..Len(file.items) :
        ItemStart(file, k) = pos /\ ByteLen(file.items[k]) = n}

\* io.ReadFull of n bytes at pos: the run that is there, "junk" for bytes that
\* straddle runs, "eof" when fewer than n bytes are left
ReadAt(file, pos, n) ==
    IF pos + n > FileLen(file) THEN [kind |-> "eof", len |-> 0, id |-> "eof"]
    ELSE IF ItemsAt(file, pos, n) # {}
    THEN file.items[CHOOSE k \in ItemsAt(file, pos, n) :
                        \A j \in ItemsAt(file, pos, n) : k <= j]
    ELSE IF n = 0 THEN Raw(0, "empty")
    ELSE Junk(n)

TableResult(ok, table, pos) == [ok |-> ok, table |-> table, pos |-> pos]

RECURSIVE TableLoop(_, _, _, _)

\* edds.go 293-311: the eight bytes e of one table entry
TableEntry(file, pos, left, acc, e) ==
    IF e.kind = "eof" THEN TableResult(FALSE, acc, FileLen(file))
    ELSE IF e.kind # "entry" THEN TableResult(FALSE, acc, pos + 8)
    ELSE IF e.magic # BlockMagicCOPY /\ e.magic # BlockMagicLZ4
    THEN TableResult(FALSE, acc, pos + 8)
    ELSE IF e.size < 0 THEN TableResult(FALSE, acc, pos + 8)
    ELSE TableLoop(file, pos + 8, left - 1, Append(acc, e))

TableLoop(file, pos, left, acc) ==
    IF left = 0 THEN TableResult(TRUE, acc, pos)
    ELSE TableEntry(file, pos, left, acc, ReadAt(file, pos, 8))

readBlockTable(file, pos, mipMapCount) == TableLoop(file, pos, mipMapCount, <<>>)

RECURSIVE SkippedSize(_, _)
SkippedSize(table, n) ==
    IF n = 0 THEN 0 ELSE table[n].size + SkippedSize(table, n - 1)

MipResult(ok, why, d, w, h, pos) ==
    [ok |-> ok, why |-> why, len |-> d.outIdx, id |-> d.id, w |-> w, h |-> h,
     pos |-> pos]

\* util.go 191-199: the block was decoded to d
MipDecoded(d, expected, w, h, pos) ==
    IF d.status # "ok" THEN MipResult(FALSE, d.why, d, 0, 0, pos)
    ELSE IF d.outIdx # expected THEN MipResult(FALSE, "mipsize", d, 0, 0, pos)
    ELSE MipResult(TRUE, "", d, w, h, pos)

\* util.go 178-199: the body of level 0, read as data from offset pos
MipBody(file, header, format, h, data, pos) ==
    IF data.kind = "eof"
    THEN MipResult(FALSE, "body", DecodeError("body"), 0, 0, FileLen(file))
    ELSE IF ExpectedDataLength(format, mipDimension(header.Width, 0),
                               mipDimension(header.Height, 0)) <= 0
    THEN MipResult(FALSE, "format", DecodeError("format"), 0, 0, pos + h.size)
    ELSE MipDecoded(
             decompressBlock([Magic |-> h.magic, Size |-> h.size,
                              UncompressedSize |-> 0, Data |-> data],
                             ExpectedDataLength(format, mipDimension(header.Width, 0),
                                                mipDimension(header.Height, 0))),
             ExpectedDataLength(format, mipDimension(header.Width, 0),
                                mipDimension(header.Height, 0)),
             mipDimension(header.Width, 0), mipDimension(header.Height, 0),
             pos + h.size)

\* MipsAfterTable reading the first body as level 0
MipsAfterTableFirst(file, header, format, n, t) ==
    IF ~t.ok THEN MipResult(FALSE, "table", DecodeError("table"), 0, 0, t.pos)
    ELSE MipBody(file, header, format, t.table[1],
                 ReadAt(file, t.pos, t.table[1].size), t.pos)

\* util.go 169-200: the bodies before the last are skipped, the last is read
MipsAfterTable(file, header, format, n, t) ==
    IF ~t.ok THEN MipResult(FALSE, "table", DecodeError("table"), 0, 0, t.pos)
    ELSE MipBody(file, header, format, t.table[n],
                 ReadAt(file, t.pos + SkippedSize(t.table, n - 1), t.table[n].size),
                 t.pos + SkippedSize(t.table, n - 1))

readLargestMipFromBlocks(file, header, format, mipMapCount) ==
    MipsAfterTable(file, header, format, Max2(1, mipMapCount),
                   readBlockTable(file, DataStart(header), Max2(1, mipMapCount)))

\* util.go 126-129
MipMapCountOf(header) ==
    IF "CapsMipMap" \in header.Caps /\ header.MipMapCount > 0
    THEN header.MipMapCount ELSE 1

\* the bytes from offset pos to the end of the file, as one run
RemainingFrom(file, pos) ==
    IF pos = DataStart(file.header) /\ Len(file.items) = 1 THEN file.items[1]
    ELSE Raw(Max2(0, FileLen(file) - pos), "rest")

\* util.go 219-232: n is what lz4.UncompressBlock returned, -1 for an error
LegacyResult(file, header, remaining, n) ==
    IF ExpectedDataLength(header.format, header.header.Width, header.header.Height) <= 0
    THEN [ok |-> FALSE, len |-> 0, id |-> ""]
    ELSE IF n = ExpectedDataLength(header.format, header.header.Width,
                                   header.header.Height)
    THEN [ok |-> TRUE, len |-> n, id |-> "lz4block"]
    ELSE IF ByteLen(remaining) = ExpectedDataLength(header.format, header.header.Width,
                                                    header.header.Height)
    THEN [ok |-> TRUE, len |-> ByteLen(remaining), id |-> remaining.id]
    ELSE [ok |-> FALSE, len |-> 0, id |-> ""]

\* what lz4.UncompressBlock can return into a buffer of the expected size
LegacyDecs(header) ==
    {-1} \cup
    (IF ExpectedDataLength(header.format, header.header.Width, header.header.Height) > 0
     THEN {ExpectedDataLength(header.format, header.header.Width, header.header.Height)}
     ELSE {})

\* util.go 206-212
LegacyStart(header) == 4 + HeaderSize + (IF header.dx10 # -1 THEN Dx10Size ELSE 0)

-----------------------------------------------------------------------------
(* Inputs of the EDDS codec                                                *)

MaxMipLimit == 3
MaxEntries == 2
MaxBodies == 2

EddsDims == {1, 3, 16, 129}

\* the images handed to the writer, the empty image included
EddsInputs ==
    [W : EddsDims, H : EddsDims, maxMipMaps : 0..MaxMipLimit]
        \cup [W : {0}, H : {0}, maxMipMaps : 0..MaxMipLimit]

\* the results CompressBlockHC is given for a chunk of n bytes: incompressible
\* (0), half, and three sizes around 85%
Quality == 1..5

Cn(n, q) ==
    CASE q = 1 -> 0
      [] q = 2 -> n \div 2
      [] q = 3 -> (85 * n) \div 100 - 4
      [] q = 4 -> (85 * n) \div 100
      [] OTHER -> (85 * n) \div 100 + 1

\* the number of CompressBlockHC calls level i can make
LevelChunks(img, i) ==
    IF MipLen(img, i) < CopyThreshold THEN 0 ELSE NChunks(MipLen(img, i))

RECURSIVE ChunksBefore(_, _)
ChunksBefore(img, i) ==
    IF i = 0 THEN 0 ELSE LevelChunks(img, i - 1) + ChunksBefore(img, i - 1)

\* per level (index i+1) the sizes returned for its chunks, from the choices q
CnTable(img, q) ==
    [k \in 1..MipCountOf(img) |->
        [j \in 1..LevelChunks(img, k - 1) |->
            Cn(ChunkLen(MipLen(img, k - 1), j), q[ChunksBefore(img, k - 1) + j])]]

\* files of other writers: a 4x4 header of some format, then a block table and bodies
ForeignHeaders ==
    LET base == CreateHeaderRGBA8(4, 4, 1)
        fcc(c) == [base EXCEPT !.pfFlags = {"PFFourCC"}, !.FourCC = c]
        shapes == {base,
                   [base EXCEPT !.RBitMask = "000000ff", !.BBitMask = "00ff0000"],
                   fcc("DXT1"), fcc("ATI1"), fcc("XXXX"), fcc("DX10"),
                   [base EXCEPT !.magic = "RIFF"]}
    IN  {[s EXCEPT !.MipMapCount = m] : s \in shapes, m \in {1, 2}}
          \cup {[base EXCEPT !.MipMapCount = 2, !.Caps = {"CapsTexture"}]}

\* the DXGI format of the DX10 header; -2 when the file ends inside it
ForeignDxgi == {87, 98, -2}

\* the table entries and the bodies a foreign file is made of, for a level 0
\* of e bytes
ForeignEntries(e) ==
    {Entry(BlockMagicCOPY, e), Entry(BlockMagicCOPY, e \div 4),
     Entry(BlockMagicLZ4, 13), Entry(BlockMagicCOPY, -1), Entry("JUNK", e)}

ForeignBodies(e) ==
    {Raw(e, "px"), Raw(e \div 4, "px1"),
     Stream(e, <<Chunk(5, 128, e)>>, 0, 0, 0, "px"),
     Stream(e, <<Chunk(5, 128, e - 1)>>, 0, 0, 0, "px")}

ForeignExpected(header, dxgi) ==
    Max2(8, ExpectedDataLength(
                DetectFormat(header, IF HasDx10(header) THEN dxgi ELSE -1),
                header.Width, header.Height))

ForeignItems(h, x) ==
    {t \o b :
        t \in UNION {[1..n -> ForeignEntries(ForeignExpected(h, x))] : n \in 0..MaxEntries},
        b \in UNION {[1..n -> ForeignBodies(ForeignExpected(h, x))] : n \in 0..MaxBodies}}

ForeignFilesAll ==
    UNION {UNION {{FileOf(h, IF HasDx10(h) THEN x ELSE -1, items) :
                      items \in ForeignItems(h, x)} :
                  x \in ForeignDxgi} :
           h \in ForeignHeaders}

\* a body under an "LZ4 " entry is a chunk stream as the decoder frames it
ForeignFiles ==
    {f \in ForeignFilesAll :
        readLargestMipFromBlocks(f, f.header,
            DetectFormat(f.header, f.dx10), MipMapCountOf(f.header)).why # "misframed"}

-----------------------------------------------------------------------------
(* WriteEDDSWithMipmaps followed by ReadEDDS, and ReadEDDS of foreign files *)

NoLog == [blocks |-> "none", legacy |-> "none", consumed |-> 0, legacyFrom |-> -1]

InitEdds ==
    /\ \/ /\ eimg \in EddsInputs
          /\ efile = NoFile
          /\ epc = "write"
       \/ /\ eimg = NoImage
          /\ efile \in ForeignFiles
          /\ epc = "open"
    /\ lz = <<>>
    /\ rhdr = Idle
    /\ rpos = 0
    /\ rlog = NoLog
    /\ rmip = Idle
    /\ eres = NoResult
    /\ IdlePack
    /\ IdleLz4
    /\ IdleSet
    /\ IdleHdr
    /\ IdleBcn
    /\ IdleName
    /\ IdleFlags
    /\ IdleRun
    /\ IdleBin
    /\ IdleRoll
    /\ IdleSkip

ReadError(why) == [status |-> "err", why |-> why, w |-> 0, h |-> 0, id |-> ""]

\* part_009 22-109, CompressBlockHC returning the sizes chosen by q
EddsWrite ==
    /\ epc = "write"
    /\ \E q \in [1..ChunksBefore(eimg, MipCountOf(eimg)) -> Quality] :
         /\ lz' = CnTable(eimg, q)
         /\ \E blocks \in {BlocksOf(eimg, CnTable(eimg, q))} :
              IF \E k \in 1..Len(blocks) : blocks[k].err
              THEN /\ efile' = efile
                   /\ epc' = "done"
                   /\ eres' = ReadError("write")
              ELSE /\ efile' = WriteFile(eimg, blocks)
                   /\ epc' = "open"
                   /\ eres' = eres
    /\ UNCHANGED <<eimg, rhdr, rpos, rlog, rmip>>
    /\ UNCHANGED <<packVars, lz4Vars, setVars, hdrVars, bcnVars, nameVars, flagVars, runVars, binVars, rollVars, skipVars>>

\* util.go 117-129: the headers, the format, the mipmap count
EddsOpen ==
    /\ epc = "open"
    /\ IF ~ReadHeader(efile.header) \/ (HasDx10(efile.header) /\ efile.dx10 = -2)
       THEN /\ epc' = "done"
            /\ eres' = ReadError("header")
            /\ UNCHANGED <<rhdr, rpos>>
       ELSE /\ rhdr' = [header |-> efile.header,
                        dx10 |-> IF HasDx10(efile.header) THEN efile.dx10 ELSE -1,
                        format |-> DetectFormat(efile.header,
                                       IF HasDx10(efile.header) THEN efile.dx10 ELSE -1),
                        mipMapCount |-> MipMapCountOf(efile.header)]
            /\ rpos' = DataStart(efile.header)
            /\ epc' = "blocks"
            /\ eres' = eres
    /\ UNCHANGED <<eimg, lz, efile, rlog, rmip>>
    /\ UNCHANGED <<packVars, lz4Vars, setVars, hdrVars, bcnVars, nameVars, flagVars, runVars, binVars, rollVars, skipVars>>

\* util.go 135-136: the per-mip block parse
EddsBlocks ==
    /\ epc = "blocks"
    /\ \E r \in {readLargestMipFromBlocks(efile, rhdr.header, rhdr.format,
                                          rhdr.mipMapCount)} :
         /\ rpos' = r.pos
         /\ IF r.ok
            THEN /\ rmip' = [len |-> r.len, id |-> r.id, w |-> r.w, h |-> r.h]
                 /\ rlog' = [rlog EXCEPT !.blocks = "ok"]
                 /\ epc' = "convert"
            ELSE /\ rmip' = rmip
                 /\ rlog' = [rlog EXCEPT !.blocks = "fail", !.consumed = r.pos]
                 /\ epc' = "legacy"
    /\ UNCHANGED <<eimg, lz, efile, rhdr, eres>>
    /\ UNCHANGED <<packVars, lz4Vars, setVars, hdrVars, bcnVars, nameVars, flagVars, runVars, binVars, rollVars, skipVars>>

\* EddsLegacy reading on from where the block parse stopped
EddsLegacyNoSeek ==
    /\ epc = "legacy"
    /\ \E n \in LegacyDecs(rhdr) :
         \E r \in {LegacyResult(efile, rhdr, RemainingFrom(efile, rpos), n)} :
           /\ rlog' = [rlog EXCEPT !.legacy = IF r.ok THEN "ok" ELSE "fail",
                                   !.legacyFrom = rpos]
           /\ IF r.ok
              THEN /\ rmip' = [len |-> r.len, id |-> r.id,
                               w |-> rhdr.header.Width, h |-> rhdr.header.Height]
                   /\ epc' = "convert"
                   /\ eres' = eres
              ELSE /\ rmip' = rmip
                   /\ epc' = "done"
                   /\ eres' = ReadError("payload")
    /\ rpos' = FileLen(efile)
    /\ UNCHANGED <<eimg, lz, efile, rhdr>>
    /\ UNCHANGED <<packVars, lz4Vars, setVars, hdrVars, bcnVars, nameVars, flagVars, runVars, binVars, rollVars, skipVars>>

\* util.go 137-141, 205-233: the legacy single-block parse
EddsLegacy ==
    /\ epc = "legacy"
    /\ \E n \in LegacyDecs(rhdr) :
         \E r \in {LegacyResult(efile, rhdr,
                                RemainingFrom(efile, LegacyStart(rhdr)), n)} :
           /\ rlog' = [rlog EXCEPT !.legacy = IF r.ok THEN "ok" ELSE "fail",
                                   !.legacyFrom = LegacyStart(rhdr)]
           /\ IF r.ok
              THEN /\ rmip' = [len |-> r.len, id |-> r.id,
                               w |-> rhdr.header.Width, h |-> rhdr.header.Height]
                   /\ epc' = "convert"
                   /\ eres' = eres
              ELSE /\ rmip' = rmip
                   /\ epc' = "done"
                   /\ eres' = ReadError("payload")
    /\ rpos' = FileLen(efile)
    /\ UNCHANGED <<eimg, lz, efile, rhdr>>
    /\ UNCHANGED <<packVars, lz4Vars, setVars, hdrVars, bcnVars, nameVars, flagVars, runVars, binVars, rollVars, skipVars>>

\* util.go 143-156: the conversion to RGBA and the image
EddsConvert ==
    /\ epc = "convert"
    /\ eres' = IF ConvertToRGBA(rmip.len, rhdr.format, rmip.w, rmip.h)
               THEN [status |-> "ok", why |-> "", w |-> rmip.w, h |-> rmip.h,
                     id |-> rmip.id]
               ELSE ReadError("convert")
    /\ epc' = "done"
    /\ UNCHANGED <<eimg, lz, efile, rhdr, rpos, rlog, rmip>>
    /\ UNCHANGED <<packVars, lz4Vars, setVars, hdrVars, bcnVars, nameVars, flagVars, runVars, binVars, rollVars, skipVars>>

NextEdds ==
    \/ EddsWrite
    \/ EddsOpen
    \/ EddsBlocks
    \/ EddsLegacy
    \/ EddsConvert

SpecEdds == InitEdds /\ [][NextEdds]_vars

-----------------------------------------------------------------------------
(* decompressBlock on arbitrary blocks, the chunk loop one iteration a step *)

MaxChunks == 2

Lz4Expected == {16, 65552}

\* chunk headers: sizes 0, 5 and 16, flag bytes with and without foreign
\* bits, payloads that fail to decode or decode to 0, 8, 16 or 65536 bytes
Lz4Chunks ==
    {Chunk(c, f, d) : c \in {0, 5, 16}, f \in {0, 1, 128}, d \in {-1, 0, 8, 16, 65536}}

Lz4ChunkLists == UNION {[1..n -> Lz4Chunks] : n \in 0..MaxChunks}

\* a stream may lack the last byte of its last payload, or go on for one
\* more byte
Lz4Streams ==
    {Stream(p, cs, cut, tail, p3, "px") :
        p \in {-1} \cup Lz4Expected, cs \in Lz4ChunkLists,
        cut \in {0, 1}, tail \in {0, 1}, p3 \in {0, 7}}

ValidStream(s) ==
    /\ s.cut = 1 => s.tail = 0 /\ s.chunks # <<>> /\ s.chunks[Len(s.chunks)].cSize > 0
    /\ s.chunks = <<>> => s.p3 = 0

Lz4Blocks ==
    {[Magic |-> BlockMagicLZ4, Size |-> ByteLen(s), UncompressedSize |-> u, Data |-> s] :
        s \in {x \in Lz4Streams : ValidStream(x)}, u \in {0, 16}}
    \cup
    {[Magic |-> m, Size |-> n, UncompressedSize |-> 0, Data |-> Raw(n, "px")] :
        m \in {BlockMagicCOPY, "ZSTD"}, n \in {8, 16}}

InitLz4 ==
    /\ dexpected \in Lz4Expected \cup {0}
    /\ dblock \in {b \in Lz4Blocks :
                      b.Magic = BlockMagicLZ4 =>
                          WellFramed(b.Data, dexpected, TargetOf(b, dexpected))}
    /\ dec = NoDecoder
    /\ IdlePack
    /\ IdleEdds
    /\ IdleSet
    /\ IdleHdr
    /\ IdleBcn
    /\ IdleName
    /\ IdleFlags
    /\ IdleRun
    /\ IdleBin
    /\ IdleRoll
    /\ IdleSkip

\* edds.go 159-204: up to the first iteration of the loop
Lz4Begin ==
    /\ dec.status = "idle"
    /\ dec' = decompressBegin(dblock, dexpected)
    /\ UNCHANGED <<dblock, dexpected>>
    /\ UNCHANGED <<packVars, eddsVars, setVars, hdrVars, bcnVars, nameVars, flagVars, runVars, binVars, rollVars, skipVars>>

\* edds.go 206-279: one iteration, with the checks after the loop when it
\* was the last
Lz4Chunk ==
    /\ dec.status = "run"
    /\ dec' = ChunkStep(dec)
    /\ UNCHANGED <<dblock, dexpected>>
    /\ UNCHANGED <<packVars, eddsVars, setVars, hdrVars, bcnVars, nameVars, flagVars, runVars, binVars, rollVars, skipVars>>

NextLz4 ==
    \/ Lz4Begin
    \/ Lz4Chunk

SpecLz4 == InitLz4 /\ [][NextLz4]_vars

\* the loop runs whenever it can
SpecLz4Fair == SpecLz4 /\ WF_vars(NextLz4)

-----------------------------------------------------------------------------
(* Claims about the EDDS writer and reader                                 *)

\* the writer was given an image and wrote a file
Written ==
    /\ eimg.W >= 0
    /\ epc \in {"open", "blocks", "legacy", "convert", "done"}
    /\ eres.why # "write"

\* the table entry and the body of level i in a written file of n levels
EntryOf(i) == efile.items[MipCountOf(eimg) - i]
BodyOf(i) == efile.items[2 * MipCountOf(eimg) - i]

Levels == 0..(MipCountOf(eimg) - 1)

\* C5: a file written by WriteEDDSWithMipmaps for a W x H image (W, H >= 1)
\* and any mipmap limit is read back by ReadEDDS without error as a W x H
\* image: table and bodies are in the same smallest-first order, each table
\* size is the length of its body, the reader skips the smaller bodies and
\* decodes the last one as level 0 against W*H*4 bytes.
C5_WriteReadRoundTrip ==
    (Written /\ eimg.W >= 1 /\ eimg.H >= 1) =>
        /\ efile.header.MipMapCount = MipCountOf(eimg)
        /\ Len(efile.items) = 2 * MipCountOf(eimg)
        /\ \A i \in Levels :
              /\ EntryOf(i).kind = "entry"
              /\ EntryOf(i).size = ByteLen(BodyOf(i))
              /\ BodyOf(i).id = MipName(i)
        /\ rlog.blocks # "fail"
        /\ rlog.blocks = "ok" =>
              /\ rpos = FileLen(efile)
              /\ rmip.len = eimg.W * eimg.H * 4
              /\ rmip.id = MipName(0)
        /\ epc = "done" =>
              /\ eres.status = "ok"
              /\ eres.w = eimg.W
              /\ eres.h = eimg.H
              /\ eres.id = MipName(0)

\* a two-chunk LZ4 level 0 behind smaller COPY levels was read back
C5_Witness ==
    /\ Written
    /\ epc = "done"
    /\ eres.status = "ok"
    /\ eimg.W = 129 /\ eimg.H = 129
    /\ MipCountOf(eimg) = 8
    /\ EntryOf(0).magic = BlockMagicLZ4
    /\ Len(BodyOf(0).chunks) = 2
    /\ EntryOf(7).magic = BlockMagicCOPY

RECURSIVE SumOf(_)
SumOf(q) == IF q = <<>> THEN 0 ELSE Head(q) + SumOf(Tail(q))

\* every chunk of a level of n bytes came back at no more than 85%
EveryChunkFits(n, cns) ==
    \A j \in 1..NChunks(n) : ~Exceeds85(cns[j], ChunkLen(n, j))

StoredAsCopy(i) ==
    /\ EntryOf(i) = Entry(BlockMagicCOPY, MipLen(eimg, i))
    /\ BodyOf(i) = Raw(MipLen(eimg, i), MipName(i))

StoredAsLZ4(i) ==
    /\ EntryOf(i).magic = BlockMagicLZ4
    /\ BodyOf(i).kind = "stream"
    /\ BodyOf(i).prefix = MipLen(eimg, i)
    /\ Len(BodyOf(i).chunks) = NChunks(MipLen(eimg, i))
    /\ \A j \in 1..NChunks(MipLen(eimg, i)) :
          /\ BodyOf(i).chunks[j].cSize = lz[i + 1][j]
          /\ BodyOf(i).chunks[j].flags =
                 (IF j = NChunks(MipLen(eimg, i)) THEN 128 ELSE 0)

\* C8 as stated: a level of at least 1024 bytes is an LZ4 block exactly when
\* every chunk compresses to at most 85% of its source and 4 plus the sum of
\* the compressed chunk sizes is at most 85% of the payload; otherwise it is
\* one COPY block holding the payload.
C8_Lz4WhenPayloadSumFits ==
    Written =>
        \A i \in Levels :
            MipLen(eimg, i) >= CopyThreshold =>
                IF /\ EveryChunkFits(MipLen(eimg, i), lz[i + 1])
                   /\ ~Exceeds85(4 + SumOf(lz[i + 1]), MipLen(eimg, i))
                THEN StoredAsLZ4(i)
                ELSE StoredAsCopy(i)

\* C8 amended: a level of at least 1024 bytes is an LZ4 block exactly when
\* every chunk compresses to a size that is not 0 and at most 85% of its
\* source, and the body (the 4-byte size word, and for each chunk its 4-byte
\* header and its compressed bytes) is at most 85% of the payload; otherwise
\* it is one COPY block holding the payload.
C8_Lz4WhenBodyFits ==
    Written =>
        \A i \in Levels :
            MipLen(eimg, i) >= CopyThreshold =>
                IF /\ EveryChunkFits(MipLen(eimg, i), lz[i + 1])
                   /\ \A j \in 1..NChunks(MipLen(eimg, i)) : lz[i + 1][j] # 0
                   /\ ~Exceeds85(4 + SumOf(lz[i + 1]) + 4 * NChunks(MipLen(eimg, i)),
                                 MipLen(eimg, i))
                THEN StoredAsLZ4(i) /\ EntryOf(i).size = ByteLen(BodyOf(i))
                ELSE StoredAsCopy(i)

\* a 1024-byte level whose only chunk came back as 866 bytes is a COPY block,
\* next to a two-chunk level stored as LZ4
C8_Witness ==
    /\ Written
    /\ eimg.W = 129 /\ eimg.H = 129 /\ MipCountOf(eimg) = 8
    /\ lz[4] = <<866>>
    /\ StoredAsCopy(3)
    /\ StoredAsLZ4(0)

\* C9: a level shorter than 1024 bytes, the empty one included, gets a table
\* entry "COPY" with the payload length and a body that is the payload.
C9_SmallPayloadIsCopy ==
    Written =>
        \A i \in Levels : MipLen(eimg, i) < CopyThreshold => StoredAsCopy(i)

\* the empty payload of an empty image was stored as a COPY block of size 0
C9_Witness ==
    /\ Written
    /\ MipLen(eimg, 0) = 0
    /\ EntryOf(0) = Entry(BlockMagicCOPY, 0)
    /\ BodyOf(0) = Raw(0, MipName(0))

\* the legacy parse was attempted from the end of the headers
LegacyFromHeaders ==
    /\ rlog.legacy # "none"
    /\ rlog.legacyFrom = 4 + HeaderSize + (IF rhdr.dx10 # -1 THEN Dx10Size ELSE 0)

FallbackRule ==
    /\ (rlog.blocks = "fail" /\ epc # "legacy") => LegacyFromHeaders
    /\ rlog.legacy # "none" => rlog.blocks = "fail"
    /\ (rlog.legacy = "ok" /\ epc \in {"convert", "done"}) =>
          /\ rmip.w = rhdr.header.Width
          /\ rmip.h = rhdr.header.Height
          /\ rmip.len = ExpectedDataLength(rhdr.format, rmip.w, rmip.h)
          /\ (epc = "done" /\ eres.status = "ok") => eres.id = rmip.id

\* C10 as stated: ReadEDDS returns an error only if the per-mip block parse
\* and the legacy single-block parse both failed; a failed per-mip parse is
\* followed by the legacy parse from the first byte after the headers,
\* whatever the failed parse consumed, and its payload is what is decoded.
C10_ErrorOnlyIfBothParsesFail ==
    /\ (epc = "done" /\ eres.status = "err" /\ eres.why # "write") =>
          rlog.blocks = "fail" /\ rlog.legacy = "fail"
    /\ FallbackRule

\* C10 amended: ReadEDDS returns a header error before any payload parse, a
\* conversion error after a successful one, and a payload error exactly when
\* the per-mip block parse and the legacy single-block parse both failed; a
\* failed per-mip parse is followed by the legacy parse from the first byte
\* after the headers, whatever the failed parse consumed, and its payload is
\* what is decoded.
C10_PayloadErrorIffBothParsesFail ==
    /\ (epc = "done" /\ eres.status = "err" /\ eres.why # "write") =>
          \/ eres.why = "header" /\ rlog.blocks = "none" /\ rlog.legacy = "none"
          \/ eres.why = "convert" /\ "ok" \in {rlog.blocks, rlog.legacy}
          \/ eres.why = "payload" /\ rlog.blocks = "fail" /\ rlog.legacy = "fail"
    /\ (epc = "done" /\ rlog.blocks = "fail" /\ rlog.legacy = "fail") =>
          eres.status = "err"
    /\ FallbackRule

\* a DX10 file whose block parse failed past the table was read as one
\* legacy block
C10_Witness ==
    /\ epc = "done"
    /\ eres.status = "ok"
    /\ rlog.blocks = "fail"
    /\ rlog.legacy = "ok"
    /\ rhdr.dx10 # -1
    /\ rlog.consumed > rlog.legacyFrom + 8

-----------------------------------------------------------------------------
(* Claims about decompressBlock                                            *)

Framed == dblock.Data

\* the size the decoded chunks have to add up to
FramedTarget ==
    IF Framed.prefix # -1 THEN Framed.prefix ELSE TargetOf(dblock, dexpected)

\* the first chunk flagged 0x80, 0 when there is none
RECURSIVE TerminalFrom(_, _)
TerminalFrom(cs, i) ==
    IF i > Len(cs) THEN 0
    ELSE IF cs[i].flags >= 128 THEN i
    ELSE TerminalFrom(cs, i + 1)

Terminal == TerminalFrom(Framed.chunks, 1)

\* the chunks the loop can get to
Upto == IF Terminal = 0 THEN Len(Framed.chunks) ELSE Terminal

\* the bytes of the body from chunk i on
BytesFrom(i) ==
    ChunksLen(SubSeq(Framed.chunks, i, Len(Framed.chunks))) - Framed.cut + Framed.tail

RECURSIVE DecodedBefore(_, _)
DecodedBefore(cs, i) ==
    IF i <= 1 THEN 0 ELSE cs[i - 1].dec + DecodedBefore(cs, i - 1)

AllDecode(i) == \A k \in 1..i : Framed.chunks[k].dec >= 0

TotalDiffers ==
    /\ Terminal > 0
    /\ AllDecode(Terminal)
    /\ DecodedBefore(Framed.chunks, Terminal + 1) # FramedTarget

ChunkWhenFull ==
    \E i \in 2..Upto :
        /\ AllDecode(i - 1)
        /\ DecodedBefore(Framed.chunks, i) >= FramedTarget

BytesAfterTerminal == Terminal > 0 /\ BytesFrom(Terminal + 1) > 0

NoTerminal == Terminal = 0

ForeignFlagBits == \E i \in 1..Upto : Framed.chunks[i].flags % 128 # 0

BadChunkSize ==
    \E i \in 1..Upto :
        \/ Framed.chunks[i].cSize = 0
        \/ Framed.chunks[i].cSize > BytesFrom(i) - 4

Lz4Returned ==
    /\ dblock.Magic = BlockMagicLZ4
    /\ TargetOf(dblock, dexpected) > 0
    /\ dec.status \in {"ok", "err"}

C7_Rejects ==
    (Lz4Returned /\ (\/ TotalDiffers \/ ChunkWhenFull \/ BytesAfterTerminal
                     \/ NoTerminal \/ ForeignFlagBits \/ BadChunkSize))
        => dec.status = "err"

C7_Consumes ==
    /\ dec.status = "run" => dec.rlen >= 0
    /\ (dec.status = "run" /\ dec'.status = "run") => dec'.rlen + 4 <= dec.rlen

\* C7: decompressBlock on an LZ4 body returns an error, never a buffer, when
\* the chunks decode to a total other than the target size, when a further
\* chunk arrives with the target already full, when bytes follow the chunk
\* flagged 0x80, when the stream ends before such a chunk, when a flag byte
\* has a bit other than 0x80, or when a chunk size is 0 or beyond the bytes
\* left; and every iteration that goes on has consumed at least 4 bytes of
\* the finite body, so the loop terminates.
C7_DecodeRejects == [](C7_Rejects) /\ [][C7_Consumes]_vars

\* a chunk that decodes to nothing arrived when the target was full
C7_Witness ==
    /\ dec.status = "err"
    /\ dec.why = "overrun"
    /\ ChunkWhenFull
    /\ ~TotalDiffers /\ ~BytesAfterTerminal /\ ~NoTerminal
    /\ ~ForeignFlagBits /\ ~BadChunkSize

\* the decoder comes to an end on every block
Lz4Terminates == <>(dec.status \in {"ok", "err"})

-----------------------------------------------------------------------------
(* internal/imageset: NormalizeName, Write, ReadFile                       *)
(*                                                                         *)
(* A Go string is a sequence of one-character strings; the text of a file  *)
(* is the sequence of its lines (every Fprintf of the writer ends its line *)
(* with "\n", and %q leaves no newline inside a line).                     *)

\* the words the writer prints and the reader looks for
Kw ==
    [ImageSetClass |-> <<"I", "m", "a", "g", "e", "S", "e", "t", "C", "l", "a", "s", "s">>,
     Name |-> <<"N", "a", "m", "e">>,
     RefSize |-> <<"R", "e", "f", "S", "i", "z", "e">>,
     Textures |-> <<"T", "e", "x", "t", "u", "r", "e", "s">>,
     ImageSetTextureClass |-> <<"I", "m", "a", "g", "e", "S", "e", "t", "T", "e", "x", "t", "u", "r", "e", "C", "l", "a", "s", "s">>,
     mpix |-> <<"m", "p", "i", "x">>,
     path |-> <<"p", "a", "t", "h">>,
     Images |-> <<"I", "m", "a", "g", "e", "s">>,
     ImageSetDefClass |-> <<"I", "m", "a", "g", "e", "S", "e", "t", "D", "e", "f", "C", "l", "a", "s", "s">>,
     Groups |-> <<"G", "r", "o", "u", "p", "s">>,
     ImageSetGroupClass |-> <<"I", "m", "a", "g", "e", "S", "e", "t", "G", "r", "o", "u", "p", "C", "l", "a", "s", "s">>,
     Pos |-> <<"P", "o", "s">>,
     Size |-> <<"S", "i", "z", "e">>,
     Flags |-> <<"F", "l", "a", "g", "s">>,
     default |-> <<"d", "e", "f", "a", "u", "l", "t">>,
     ISHorizontalTile |-> <<"I", "S", "H", "o", "r", "i", "z", "o", "n", "t", "a", "l", "T", "i", "l", "e">>,
     ISVerticalTile |-> <<"I", "S", "V", "e", "r", "t", "i", "c", "a", "l", "T", "i", "l", "e">>]

LowerChars == <<"a", "b", "c", "d", "e", "f", "g", "h", "i", "j", "k", "l", "m", "n", "o", "p", "q", "r", "s", "t", "u", "v", "w", "x", "y", "z">>

UpperChars == <<"A", "B", "C", "D", "E", "F", "G", "H", "I", "J", "K", "L", "M", "N", "O", "P", "Q", "R", "S", "T", "U", "V", "W", "X", "Y", "Z">>

DigitChars == <<"0", "1", "2", "3", "4", "5", "6", "7", "8", "9">>

IndexIn(c, q) == IF \E i \in 1..Len(q) : q[i] = c
                 THEN CHOOSE i \in 1..Len(q) : q[i] = c ELSE 0

isAsciiAlphaNum(c) ==
    IndexIn(c, LowerChars) > 0 \/ IndexIn(c, UpperChars) > 0 \/ IndexIn(c, DigitChars) > 0

toLowerAscii(c) == IF IndexIn(c, UpperChars) > 0 THEN LowerChars[IndexIn(c, UpperChars)] ELSE c

toUpperAscii(c) == IF IndexIn(c, LowerChars) > 0 THEN UpperChars[IndexIn(c, LowerChars)] ELSE c

\* a splitTokens that takes the whole input for one token
splitTokensWhole(input, buf, tokens) ==
    IF input = <<>> THEN <<>>
    ELSE <<[i \in 1..Len(input) |-> toLowerAscii(input[i])]>>

\* splitTokens: the lower-cased runs of ASCII letters and digits; buf is the
\* run being collected
RECURSIVE splitTokens(_, _, _)
splitTokens(input, buf, tokens) ==
    IF input = <<>> THEN (IF buf = <<>> THEN tokens ELSE Append(tokens, buf))
    ELSE IF isAsciiAlphaNum(Head(input))
    THEN splitTokens(Tail(input), Append(buf, toLowerAscii(Head(input))), tokens)
    ELSE splitTokens(Tail(input), <<>>,
                     IF buf = <<>> THEN tokens ELSE Append(tokens, buf))

toCamelToken(token) ==
    [i \in 1..Len(token) |->
        IF i = 1 THEN toUpperAscii(token[i]) ELSE toLowerAscii(token[i])]

RECURSIVE JoinTokens(_, _)
JoinTokens(tokens, camel) ==
    IF tokens = <<>> THEN <<>>
    ELSE IF camel THEN toCamelToken(Head(tokens)) \o JoinTokens(Tail(tokens), camel)
    ELSE IF Len(tokens) = 1 THEN Head(tokens)
    ELSE Head(tokens) \o <<"_">> \o JoinTokens(Tail(tokens), camel)

NormalizeName(input, camel) == JoinTokens(splitTokens(input, <<>>, <<>>), camel)

\* ---- fmt and strings ----

IsSpace(c) == c \in {" ", "\t"}

\* strings.Trim(s, cutset)
RECURSIVE TrimLeft(_, _)
TrimLeft(s, cut) ==
    IF s # <<>> /\ Head(s) \in cut THEN TrimLeft(Tail(s), cut) ELSE s

RECURSIVE TrimRight(_, _)
TrimRight(s, cut) ==
    IF s # <<>> /\ s[Len(s)] \in cut THEN TrimRight(SubSeq(s, 1, Len(s) - 1), cut) ELSE s

Trim(s, cut) == TrimRight(TrimLeft(s, cut), cut)

TrimSpace(s) == Trim(s, {" ", "\t"})

HasPrefix(s, p) == Len(s) >= Len(p) /\ SubSeq(s, 1, Len(p)) = p

HasSuffix(s, p) == Len(s) >= Len(p) /\ SubSeq(s, Len(s) - Len(p) + 1, Len(s)) = p

\* strings.Fields; word is the field being collected
RECURSIVE Fields(_, _, _)
Fields(s, word, out) ==
    IF s = <<>> THEN (IF word = <<>> THEN out ELSE Append(out, word))
    ELSE IF IsSpace(Head(s))
    THEN Fields(Tail(s), <<>>, IF word = <<>> THEN out ELSE Append(out, word))
    ELSE Fields(Tail(s), Append(word, Head(s)), out)

\* %d
RECURSIVE Digits(_)
Digits(n) ==
    IF n < 10 THEN <<DigitChars[n + 1]>>
    ELSE Append(Digits(n \div 10), DigitChars[(n % 10) + 1])

FormatInt(n) == IF n < 0 THEN <<"-">> \o Digits(-n) ELSE Digits(n)

\* %q of a string of printable ASCII
RECURSIVE Escaped(_)
Escaped(s) ==
    IF s = <<>> THEN <<>>
    ELSE (IF Head(s) \in {"\"", "\\"} THEN <<"\\", Head(s)>> ELSE <<Head(s)>>)
             \o Escaped(Tail(s))

Quote(s) == <<"\"">> \o Escaped(s) \o <<"\"">>

\* strconv.Atoi: ok is FALSE for an error
RECURSIVE DigitsValue(_, _)
DigitsValue(s, acc) ==
    IF s = <<>> THEN acc
    ELSE DigitsValue(Tail(s), 10 * acc + IndexIn(Head(s), DigitChars) - 1)

AllDigits(s) == s # <<>> /\ \A i \in 1..Len(s) : IndexIn(s[i], DigitChars) > 0

Atoi(s) ==
    IF s # <<>> /\ Head(s) \in {"-", "+"}
    THEN [ok |-> AllDigits(Tail(s)),
          v |-> IF ~AllDigits(Tail(s)) THEN 0
                ELSE IF Head(s) = "-" THEN 0 - DigitsValue(Tail(s), 0)
                ELSE DigitsValue(Tail(s), 0)]
    ELSE [ok |-> AllDigits(s), v |-> IF AllDigits(s) THEN DigitsValue(s, 0) ELSE 0]

Tabs(n) == [i \in 1..n |-> "\t"]

\* Fprintf of words separated by one space after the indentation
RECURSIVE Spaced(_)
Spaced(words) ==
    IF Len(words) <= 1 THEN (IF words = <<>> THEN <<>> ELSE Head(words))
    ELSE Head(words) \o <<" ">> \o Spaced(Tail(words))

Line(indent, words) == Tabs(indent) \o Spaced(words)

\* the concatenation of a sequence of line lists
RECURSIVE Flatten(_)
Flatten(q) == IF q = <<>> THEN <<>> ELSE Head(q) \o Flatten(Tail(q))

\* ---- write.go ----

ClassNameOf(name, camel) ==
    IF NormalizeName(name, camel) = <<>> THEN Kw.default ELSE NormalizeName(name, camel)

writeTexture(tex, indent) ==
    <<Line(indent, <<Kw.ImageSetTextureClass, <<"{">>>>),
      Line(indent + 1, <<Kw.mpix, FormatInt(tex.Mpix)>>),
      Line(indent + 1, <<Kw.path, Quote(tex.Path)>>),
      Line(indent, <<<<"}">>>>)>>

writeImageDef(img, indent, camel) ==
    <<Line(indent, <<Kw.ImageSetDefClass, ClassNameOf(img.Name, camel), <<"{">>>>),
      Line(indent + 1, <<Kw.Name, Quote(NormalizeName(img.Name, camel))>>),
      Line(indent + 1, <<Kw.Pos, FormatInt(img.Pos[1]), FormatInt(img.Pos[2])>>),
      Line(indent + 1, <<Kw.Size, FormatInt(img.Size[1]), FormatInt(img.Size[2])>>),
      Line(indent + 1, <<Kw.Flags, FormatInt(img.Flags)>>),
      Line(indent, <<<<"}">>>>)>>

\* a list of items as "<title> {", the items, "}"; nothing for no items
Block(title, lines, indent, n) ==
    IF n = 0 THEN <<>>
    ELSE <<Line(indent, <<title, <<"{">>>>)>> \o lines \o <<Line(indent, <<<<"}">>>>)>>

writeGroup(group, indent, camel) ==
    <<Line(indent, <<Kw.ImageSetGroupClass, ClassNameOf(group.Name, camel), <<"{">>>>),
      Line(indent + 1, <<Kw.Name, Quote(NormalizeName(group.Name, camel))>>)>>
    \o Block(Kw.Images,
             Flatten([k \in 1..Len(group.Images) |->
                         writeImageDef(group.Images[k], indent + 2, camel)]),
             indent + 1, Len(group.Images))
    \o <<Line(indent, <<<<"}">>>>)>>

writeImageSetClass(is, indent, camel) ==
    <<Line(indent, <<Kw.ImageSetClass, <<"{">>>>),
      Line(indent + 1, <<Kw.Name, Quote(NormalizeName(is.Name, camel))>>),
      Line(indent + 1, <<Kw.RefSize, FormatInt(is.RefSize[1]), FormatInt(is.RefSize[2])>>)>>
    \o Block(Kw.Textures,
             Flatten([k \in 1..Len(is.Textures) |-> writeTexture(is.Textures[k], indent + 2)]),
             indent + 1, Len(is.Textures))
    \o Block(Kw.Images,
             Flatten([k \in 1..Len(is.Images) |->
                         writeImageDef(is.Images[k], indent + 2, camel)]),
             indent + 1, Len(is.Images))
    \o Block(Kw.Groups,
             Flatten([k \in 1..Len(is.Groups) |->
                         writeGroup(is.Groups[k], indent + 2, camel)]),
             indent + 1, Len(is.Groups))
    \o <<Line(indent, <<<<"}">>>>)>>

Write(is, camel) == writeImageSetClass(is, 0, camel)

\* ---- read.go ----

ZeroDef == [Name |-> <<>>, Pos |-> <<0, 0>>, Size |-> <<0, 0>>, Flags |-> 0]

ZeroGroup == [Name |-> <<>>, Images |-> <<>>]

\* a | b on two's complement integers
RECURSIVE BitOr(_, _)
BitOr(a, b) ==
    IF a = 0 THEN b
    ELSE IF b = 0 THEN a
    ELSE IF a = -1 \/ b = -1 THEN -1
    ELSE 2 * BitOr(a \div 2, b \div 2) + (IF a % 2 = 1 \/ b % 2 = 1 THEN 1 ELSE 0)

\* the loop over the tokens of parseFlags
RECURSIVE FlagsLoop(_, _)
FlagsLoop(tokens, flags) ==
    IF tokens = <<>> THEN [ok |-> TRUE, v |-> flags]
    ELSE LET t == Trim(TrimSpace(Head(tokens)), {"|", "+"})
         IN IF t = <<>> THEN FlagsLoop(Tail(tokens), flags)
            ELSE IF t = Kw.ISHorizontalTile THEN FlagsLoop(Tail(tokens), BitOr(flags, 1))
            ELSE IF t = Kw.ISVerticalTile THEN FlagsLoop(Tail(tokens), BitOr(flags, 2))
            ELSE IF Atoi(t).ok THEN FlagsLoop(Tail(tokens), BitOr(flags, Atoi(t).v))
            ELSE [ok |-> FALSE, v |-> 0]

parseFlags(tokens) ==
    IF tokens = <<>> THEN [ok |-> TRUE, v |-> 0]
    ELSE IF Len(tokens) = 1 /\ Atoi(tokens[1]).ok THEN [ok |-> TRUE, v |-> Atoi(tokens[1]).v]
    ELSE FlagsLoop(tokens, 0)

parseClassName(line) ==
    LET fields == Fields(line, <<>>, <<>>)
    IN IF Len(fields) < 2 THEN <<>>
       ELSE IF Trim(fields[2], {"{"}) = <<>> /\ Len(fields) >= 3
       THEN Trim(fields[3], {"{"})
       ELSE Trim(fields[2], {"{"})

\* "section opens": whether the switch ends the iteration with continue
SectionContinues(r, line) ==
    IF r.curGroup # <<>> /\ HasPrefix(line, Kw.Images) /\ HasSuffix(line, <<"{">>) THEN TRUE
    ELSE IF HasPrefix(line, Kw.Textures) THEN TRUE
    ELSE IF HasPrefix(line, Kw.Images) THEN HasSuffix(line, <<"{">>)
    ELSE IF HasPrefix(line, Kw.Groups) THEN HasSuffix(line, <<"{">>)
    ELSE HasPrefix(line, Kw.ImageSetGroupClass) \/ HasPrefix(line, Kw.ImageSetDefClass)

\* the assignments with the root Images case tried before the group's
SectionOpenRootFirst(r, line) ==
    IF HasPrefix(line, Kw.Textures) THEN r
    ELSE IF HasPrefix(line, Kw.Images) THEN [r EXCEPT !.inImages = TRUE]
    ELSE IF HasPrefix(line, Kw.Groups) THEN [r EXCEPT !.inGroups = TRUE]
    ELSE IF HasPrefix(line, Kw.ImageSetGroupClass)
    THEN [r EXCEPT !.curGroup = <<[ZeroGroup EXCEPT !.Name = parseClassName(line)]>>,
                   !.inGroupImages = FALSE]
    ELSE [r EXCEPT !.curDef = <<ZeroDef>>, !.inDef = TRUE]

\* ... and what it assigns before continue
SectionOpen(r, line) ==
    IF r.curGroup # <<>> /\ HasPrefix(line, Kw.Images) /\ HasSuffix(line, <<"{">>)
    THEN [r EXCEPT !.inGroupImages = TRUE]
    ELSE IF HasPrefix(line, Kw.Textures) THEN r
    ELSE IF HasPrefix(line, Kw.Images) THEN [r EXCEPT !.inImages = TRUE]
    ELSE IF HasPrefix(line, Kw.Groups) THEN [r EXCEPT !.inGroups = TRUE]
    ELSE IF HasPrefix(line, Kw.ImageSetGroupClass)
    THEN [r EXCEPT !.curGroup = <<[ZeroGroup EXCEPT !.Name = parseClassName(line)]>>,
                   !.inGroupImages = FALSE]
    ELSE [r EXCEPT !.curDef = <<ZeroDef>>, !.inDef = TRUE]

\* "block close": the line is "}"
BlockClose(r) ==
    IF r.inDef /\ r.curDef # <<>>
    THEN IF r.curGroup # <<>> /\ r.inGroupImages
         THEN [r EXCEPT !.curGroup[1].Images = Append(@, r.curDef[1]),
                        !.curDef = <<>>, !.inDef = FALSE]
         ELSE [r EXCEPT !.is.Images = Append(@, r.curDef[1]),
                        !.curDef = <<>>, !.inDef = FALSE]
    ELSE IF r.inGroupImages THEN [r EXCEPT !.inGroupImages = FALSE]
    ELSE IF r.curGroup # <<>> /\ r.inGroups
    THEN [r EXCEPT !.is.Groups = Append(@, r.curGroup[1]), !.curGroup = <<>>]
    ELSE IF r.inImages THEN [r EXCEPT !.inImages = FALSE]
    ELSE IF r.inGroups THEN [r EXCEPT !.inGroups = FALSE]
    ELSE r

\* two decimal fields of a key-value line
Pair(fields) ==
    [ok |-> Atoi(fields[2]).ok /\ Atoi(fields[3]).ok,
     v |-> <<Atoi(fields[2]).v, Atoi(fields[3]).v>>]

\* "key-value lines"
KeyValue(r, line) ==
    LET fields == Fields(line, <<>>, <<>>)
        val == Trim(TrimSpace(Trim(SubSeq(line, Len(Kw.Name) + 1, Len(line)), {" ", "\t"})),
                    {"\""})
    IN IF fields = <<>> THEN r
       ELSE IF fields[1] = Kw.Name
       THEN IF r.inDef /\ r.curDef # <<>> THEN [r EXCEPT !.curDef[1].Name = val]
            ELSE IF r.curGroup # <<>> THEN [r EXCEPT !.curGroup[1].Name = val]
            ELSE [r EXCEPT !.is.Name = val]
       ELSE IF fields[1] = Kw.RefSize
       THEN IF Len(fields) < 3 THEN [r EXCEPT !.err = "invalid RefSize"]
            ELSE IF ~Pair(fields).ok THEN [r EXCEPT !.err = "invalid RefSize values"]
            ELSE [r EXCEPT !.is.RefSize = Pair(fields).v]
       ELSE IF fields[1] = Kw.Pos
       THEN IF r.curDef = <<>> \/ Len(fields) < 3 THEN [r EXCEPT !.err = "invalid Pos"]
            ELSE IF ~Pair(fields).ok THEN [r EXCEPT !.err = "invalid Pos values"]
            ELSE [r EXCEPT !.curDef[1].Pos = Pair(fields).v]
       ELSE IF fields[1] = Kw.Size
       THEN IF r.curDef = <<>> \/ Len(fields) < 3 THEN [r EXCEPT !.err = "invalid Size"]
            ELSE IF ~Pair(fields).ok THEN [r EXCEPT !.err = "invalid Size values"]
            ELSE [r EXCEPT !.curDef[1].Size = Pair(fields).v]
       ELSE IF fields[1] = Kw.Flags
       THEN IF r.curDef = <<>> \/ Len(fields) < 2 THEN [r EXCEPT !.err = "invalid Flags"]
            ELSE IF ~parseFlags(Tail(fields)).ok THEN [r EXCEPT !.err = "invalid Flags value"]
            ELSE [r EXCEPT !.curDef[1].Flags = parseFlags(Tail(fields)).v]
       ELSE r

\* one iteration of the scanner loop of ReadFile on the scanned line
ReadLine(r, scanned) ==
    LET line == TrimSpace(scanned)
        at == [r EXCEPT !.lineNo = @ + 1]
    IN IF line = <<>> THEN at
       ELSE IF SectionContinues(at, line) THEN SectionOpen(at, line)
       ELSE IF line = <<"}">> THEN BlockClose(at)
       ELSE KeyValue(at, line)

\* ---- the entities handed to Write ----

MaxNameLen == 3

MaxImageDefs == 2

MaxGroups == 1

MaxGroupDefs == 1

SeqsUpTo(S, n) == UNION {[1..k -> S] : k \in 0..n}

\* names before and after NormalizeName
RawNames == SeqsUpTo({"a", "A", "_"}, MaxNameLen)

NormalizedNames(camel) == {NormalizeName(s, camel) : s \in RawNames}

ImageDefs(camel) ==
    {[Name |-> n, Pos |-> <<12, -3>>, Size |-> <<5, 10>>, Flags |-> 3] :
        n \in NormalizedNames(camel)}

ImageGroups(camel) ==
    {[Name |-> n, Images |-> q] :
        n \in NormalizedNames(camel), q \in SeqsUpTo(ImageDefs(camel), MaxGroupDefs)}

TextureLists == {<<>>, <<[Path |-> <<"a", "/", "b", ".", "e">>, Mpix |-> 1]>>}

ImageSets(camel) ==
    {[Name |-> n, RefSize |-> <<64, 128>>, Textures |-> t, Images |-> q, Groups |-> g] :
        n \in NormalizedNames(camel), t \in TextureLists,
        q \in SeqsUpTo(ImageDefs(camel), MaxImageDefs),
        g \in SeqsUpTo(ImageGroups(camel), MaxGroups)}

InitSet ==
    /\ IdlePack
    /\ IdleEdds
    /\ IdleLz4
    /\ IdleHdr
    /\ IdleBcn
    /\ IdleName
    /\ IdleFlags
    /\ IdleRun
    /\ IdleBin
    /\ IdleRoll
    /\ IdleSkip
    /\ useCamelCase \in BOOLEAN
    /\ entity \in ImageSets(useCamelCase)
    /\ text = <<>>
    /\ ipc = "write"
    /\ rd = NewReader

\* imageset.Write(w, entity, useCamelCase), then the file is opened by ReadFile
SetWrite ==
    /\ ipc = "write"
    /\ text' = Write(entity, useCamelCase)
    /\ ipc' = "scan"
    /\ UNCHANGED <<entity, useCamelCase, rd>>
    /\ UNCHANGED <<packVars, eddsVars, lz4Vars, hdrVars, bcnVars, nameVars, flagVars, runVars, binVars, rollVars, skipVars>>

\* sc.Scan() returned a line: one iteration, which may return an error
SetScan ==
    /\ ipc = "scan"
    /\ rd.lineNo < Len(text)
    /\ rd' = ReadLine(rd, text[rd.lineNo + 1])
    /\ ipc' = IF rd'.err # "" THEN "done" ELSE "scan"
    /\ UNCHANGED <<entity, useCamelCase, text>>
    /\ UNCHANGED <<packVars, eddsVars, lz4Vars, hdrVars, bcnVars, nameVars, flagVars, runVars, binVars, rollVars, skipVars>>

\* sc.Scan() returned false: return is, nil
SetReturn ==
    /\ ipc = "scan"
    /\ rd.lineNo = Len(text)
    /\ ipc' = "done"
    /\ UNCHANGED <<entity, useCamelCase, text, rd>>
    /\ UNCHANGED <<packVars, eddsVars, lz4Vars, hdrVars, bcnVars, nameVars, flagVars, runVars, binVars, rollVars, skipVars>>

NextSet == SetWrite \/ SetScan \/ SetReturn

SpecSet == InitSet /\ [][NextSet]_vars

-----------------------------------------------------------------------------
(* Imageset round trip                                                     *)

\* ReadFile returned (is, nil)
SetRead == ipc = "done" /\ rd.err = ""

\* every name of x is left alone by NormalizeName in the given mode
NamesOf(x) ==
    {x.Name} \cup {x.Images[i].Name : i \in 1..Len(x.Images)}
             \cup {x.Groups[g].Name : g \in 1..Len(x.Groups)}
             \cup UNION {{x.Groups[g].Images[i].Name : i \in 1..Len(x.Groups[g].Images)} :
                            g \in 1..Len(x.Groups)}

NamesKept(x, camel) == \A n \in NamesOf(x) : NormalizeName(n, camel) = n

\* C6: for an entity whose names are normalized identifiers of the mode
\* given to Write, ReadFile of the written text returns the entity itself:
\* Name, RefSize, Textures, root Images, Groups and their Images, with
\* every Pos, Size and Flags.
C6_ReadOfWriteIsIdentity ==
    ipc = "done" => rd.err = "" /\ rd.is = entity

\* What the reader does return: never an error; with names that
\* NormalizeName leaves alone, everything of the entity but its Textures.
ReadsBackAllButTextures ==
    ipc = "done" =>
        /\ rd.err = ""
        /\ rd.is.Textures = <<>>
        /\ rd.is.RefSize = entity.RefSize
        /\ Len(rd.is.Images) = Len(entity.Images)
        /\ Len(rd.is.Groups) = Len(entity.Groups)
        /\ NamesKept(entity, useCamelCase) =>
               rd.is = [entity EXCEPT !.Textures = <<>>]

\* a camel-case identifier of two tokens was written and read back
CamelRewritten ==
    /\ SetRead /\ useCamelCase /\ entity.Textures = <<>>
    /\ ~NamesKept(entity, useCamelCase)
    /\ rd.is # entity

\* an entity with a texture was written and read back without it
TexturesDropped ==
    /\ SetRead /\ entity.Textures # <<>> /\ rd.is.Textures = <<>>
    /\ NamesKept(entity, useCamelCase)

-----------------------------------------------------------------------------
(* internal/dds: the 128 bytes of magic and header                         *)
(*                                                                         *)
(* A uint32 is held as its two 16-bit halves, a file as a sequence of      *)
(* bytes.                                                                  *)

U32(n) == [hi |-> n \div 65536, lo |-> n % 65536]

\* binary.LittleEndian.PutUint32 and Uint32
PutUint32(v) == <<v.lo % 256, v.lo \div 256, v.hi % 256, v.hi \div 256>>

Uint32(b) == [hi |-> b[3] + 256 * b[4], lo |-> b[1] + 256 * b[2]]

\* a & b on naturals
RECURSIVE BitAnd(_, _)
BitAnd(a, b) ==
    IF a = 0 \/ b = 0 THEN 0
    ELSE 2 * BitAnd(a \div 2, b \div 2) + (IF a % 2 = 1 /\ b % 2 = 1 THEN 1 ELSE 0)

\* And32 that lets every bit through
And32Loose(a, b) == b

And32(a, b) == [hi |-> BitAnd(a.hi, b.hi), lo |-> BitAnd(a.lo, b.lo)]

\* the constants of read.go 188-217
FlagValue(name) ==
    CASE name = "DCaps" -> 1 [] name = "DHeight" -> 2 [] name = "DWidth" -> 4
      [] name = "DPitch" -> 8 [] name = "DPixelFormat" -> 4096
      [] name = "DMipMapCount" -> 131072 [] name = "DLinearSize" -> 524288
      [] name = "DDepth" -> 8388608
      [] name = "PFAlphaPixels" -> 1 [] name = "PFAlpha" -> 2 [] name = "PFFourCC" -> 4
      [] name = "PFRGB" -> 64 [] name = "PFYUV" -> 512 [] name = "PFLuminance" -> 131072
      [] name = "CapsComplex" -> 8 [] name = "CapsTexture" -> 4096
      [] name = "CapsMipMap" -> 4194304

RECURSIVE FlagSum(_)
FlagSum(names) ==
    IF names = {} THEN 0
    ELSE LET n == CHOOSE n \in names : TRUE
         IN FlagValue(n) + FlagSum(names \ {n})

FlagWord(names) == U32(FlagSum(names))

\* the four bytes of a four-character tag; "" is the zero word
TagBytes(tag) ==
    CASE tag = "" -> <<0, 0, 0, 0>>
      [] tag = "DDS " -> <<68, 68, 83, 32>>
      [] tag = "RIFF" -> <<82, 73, 70, 70>>
      [] tag = "ENF1" -> <<69, 78, 70, 49>>
      [] tag = "DX10" -> <<68, 88, 49, 48>>
      [] tag = "DXT1" -> <<68, 88, 84, 49>>
      [] tag = "ATI1" -> <<65, 84, 73, 49>>
      [] tag = "XXXX" -> <<88, 88, 88, 88>>

\* a bit mask written as eight hexadecimal digits
MaskWord(hex) ==
    CASE hex = "000000ff" -> [hi |-> 0, lo |-> 255]
      [] hex = "0000ff00" -> [hi |-> 0, lo |-> 65280]
      [] hex = "00ff0000" -> [hi |-> 255, lo |-> 0]
      [] hex = "ff000000" -> [hi |-> 65280, lo |-> 0]

\* the Header struct of a header record: every field as a uint32
Header(h) ==
    [Size |-> U32(h.Size), Flags |-> FlagWord(h.Flags), Height |-> U32(h.Height),
     Width |-> U32(h.Width), PitchOrLinearSize |-> U32(h.PitchOrLinearSize),
     Depth |-> U32(h.Depth), MipMapCount |-> U32(h.MipMapCount),
     Reserved1 |-> [i \in 1..11 |-> Uint32(TagBytes(h.Reserved1[i]))],
     PixelFormat |->
        [Size |-> U32(h.pfSize), Flags |-> FlagWord(h.pfFlags),
         FourCC |-> Uint32(TagBytes(h.FourCC)), RGBBitCount |-> U32(h.RGBBitCount),
         RBitMask |-> MaskWord(h.RBitMask), GBitMask |-> MaskWord(h.GBitMask),
         BBitMask |-> MaskWord(h.BBitMask), ABitMask |-> MaskWord(h.ABitMask)],
     Caps |-> FlagWord(h.Caps), Caps2 |-> U32(h.Caps2), Caps3 |-> U32(h.Caps3),
     Caps4 |-> U32(h.Caps4), Reserved2 |-> U32(h.Reserved2)]

WriteMagic == TagBytes(Magic)

\* WriteHeader: the fields in the order of their writeDWORD calls
WriteHeader(H) ==
    Flatten([k \in 1..31 |-> PutUint32(
        (<<H.Size, H.Flags, H.Height, H.Width, H.PitchOrLinearSize, H.Depth,
           H.MipMapCount>>
         \o H.Reserved1
         \o <<H.PixelFormat.Size, H.PixelFormat.Flags, H.PixelFormat.FourCC,
              H.PixelFormat.RGBBitCount, H.PixelFormat.RBitMask,
              H.PixelFormat.GBitMask, H.PixelFormat.BBitMask,
              H.PixelFormat.ABitMask,
              H.Caps, H.Caps2, H.Caps3, H.Caps4, H.Reserved2>>)[k])])

\* the k-th readDWORD of ReadHeader, for an input that is long enough
readDWORD(b, k) == Uint32(SubSeq(b, 4 * k + 1, 4 * k + 4))

HeaderError(why) == [err |-> why, h |-> <<>>]

\* ReadHeader on the bytes b: (nil, err) or (&h, nil)
ReadHeaderBytes(b) ==
    IF Len(b) < 4 THEN HeaderError("reading magic")
    ELSE IF SubSeq(b, 1, 4) # TagBytes(Magic) THEN HeaderError("invalid magic")
    ELSE IF Len(b) < 8 THEN HeaderError("reading header size")
    ELSE IF readDWORD(b, 1) # U32(HeaderSize) THEN HeaderError("invalid header size")
    ELSE IF Len(b) < 4 + 4 * 18 THEN HeaderError("reading header fields")
    ELSE IF Len(b) < 4 + 4 * 19 THEN HeaderError("reading pixel format size")
    ELSE IF readDWORD(b, 19) # U32(PixelFormatSize)
    THEN HeaderError("invalid pixel format size")
    ELSE IF Len(b) < 4 + 4 * 31 THEN HeaderError("reading pixel format and caps")
    ELSE IF readDWORD(b, 31) # U32(0) THEN HeaderError("reserved2 is not zero")
    ELSE IF And32(readDWORD(b, 2), FlagWord(HeaderFlagsTexture))
                # FlagWord(HeaderFlagsTexture)
    THEN HeaderError("invalid header flags")
    ELSE [err |-> "",
          h |-> [Size |-> readDWORD(b, 1), Flags |-> readDWORD(b, 2),
                 Height |-> readDWORD(b, 3), Width |-> readDWORD(b, 4),
                 PitchOrLinearSize |-> readDWORD(b, 5), Depth |-> readDWORD(b, 6),
                 MipMapCount |-> readDWORD(b, 7),
                 Reserved1 |-> [i \in 1..11 |-> readDWORD(b, 7 + i)],
                 PixelFormat |->
                    [Size |-> readDWORD(b, 19), Flags |-> readDWORD(b, 20),
                     FourCC |-> readDWORD(b, 21), RGBBitCount |-> readDWORD(b, 22),
                     RBitMask |-> readDWORD(b, 23), GBitMask |-> readDWORD(b, 24),
                     BBitMask |-> readDWORD(b, 25), ABitMask |-> readDWORD(b, 26)],
                 Caps |-> readDWORD(b, 27), Caps2 |-> readDWORD(b, 28),
                 Caps3 |-> readDWORD(b, 29), Caps4 |-> readDWORD(b, 30),
                 Reserved2 |-> readDWORD(b, 31)]]

\* ---- the headers written and the files read ----

\* sides and level counts given to CreateHeaderRGBA8
HeaderSides == {1, 4, 70000}

HeaderLevels == {0, 1, 11}

\* the longest run of bytes appended to a written header
MaxExtraBytes == 4

\* words that take the place of a written one
StrayWords == {U32(0), U32(1), U32(32), U32(124), U32(4103), [hi |-> 65535, lo |-> 65535]}

NotRead == [err |-> "unread", h |-> <<>>]

InitHdr ==
    /\ IdlePack
    /\ IdleEdds
    /\ IdleLz4
    /\ IdleSet
    /\ IdleBcn
    /\ IdleName
    /\ IdleFlags
    /\ IdleRun
    /\ IdleBin
    /\ IdleRoll
    /\ IdleSkip
    /\ hmade \in {CreateHeaderRGBA8(w, h, m) :
                     w \in HeaderSides, h \in HeaderSides, m \in HeaderLevels}
    /\ hbytes = <<>>
    /\ hres = NotRead

\* dds.WriteMagic and dds.WriteHeader into an empty file
HdrWrite ==
    /\ hbytes = <<>>
    /\ hres = NotRead
    /\ hbytes' = WriteMagic \o WriteHeader(Header(hmade))
    /\ UNCHANGED <<hmade, hres>>
    /\ UNCHANGED <<packVars, eddsVars, lz4Vars, setVars, bcnVars, nameVars, flagVars, runVars, binVars, rollVars, skipVars>>

\* the file is another writer's or is damaged: one word (0 is the magic) is
\* another word, or one flag of the header is missing
HdrDamage ==
    /\ hbytes = WriteMagic \o WriteHeader(Header(hmade))
    /\ hres = NotRead
    /\ \/ \E k \in 0..31, w \in StrayWords :
            hbytes' = [i \in 1..Len(hbytes) |->
                          IF i \in (4 * k + 1)..(4 * k + 4)
                          THEN PutUint32(w)[i - 4 * k] ELSE hbytes[i]]
       \/ \E f \in hmade.Flags :
            hbytes' = WriteMagic \o WriteHeader(Header([hmade EXCEPT !.Flags = @ \ {f}]))
    /\ UNCHANGED <<hmade, hres>>
    /\ UNCHANGED <<packVars, eddsVars, lz4Vars, setVars, bcnVars, nameVars, flagVars, runVars, binVars, rollVars, skipVars>>

\* the file is cut short, or goes on after the header
HdrResize ==
    /\ hbytes = WriteMagic \o WriteHeader(Header(hmade))
    /\ hres = NotRead
    /\ \/ \E n \in 0..127 : hbytes' = SubSeq(hbytes, 1, n)
       \/ \E n \in 1..MaxExtraBytes : hbytes' = hbytes \o [i \in 1..n |-> 0]
    /\ UNCHANGED <<hmade, hres>>
    /\ UNCHANGED <<packVars, eddsVars, lz4Vars, setVars, bcnVars, nameVars, flagVars, runVars, binVars, rollVars, skipVars>>

\* dds.ReadHeader(r)
HdrRead ==
    /\ hres = NotRead
    /\ hres' = ReadHeaderBytes(hbytes)
    /\ UNCHANGED <<hmade, hbytes>>
    /\ UNCHANGED <<packVars, eddsVars, lz4Vars, setVars, bcnVars, nameVars, flagVars, runVars, binVars, rollVars, skipVars>>

NextHdr == HdrWrite \/ HdrDamage \/ HdrResize \/ HdrRead

SpecHdr == InitHdr /\ [][NextHdr]_vars

-----------------------------------------------------------------------------
(* Claims about dds.ReadHeader                                             *)

\* the bytes of the file as the format lays them out
MagicField == SubSeq(hbytes, 1, 4)

SizeField == SubSeq(hbytes, 5, 8)

FlagsField == SubSeq(hbytes, 9, 12)

PixelFormatSizeField == SubSeq(hbytes, 77, 80)

Reserved2Field == SubSeq(hbytes, 125, 128)

\* caps | height | width (0x7) in the first flag byte, pixel-format (0x1000)
\* in the second
HasTextureMask ==
    /\ FlagsField[1] % 8 = 7
    /\ (FlagsField[2] \div 16) % 2 = 1

Malformed ==
    \/ Len(hbytes) < 128
    \/ MagicField # <<68, 68, 83, 32>>
    \/ SizeField # <<124, 0, 0, 0>>
    \/ PixelFormatSizeField # <<32, 0, 0, 0>>
    \/ Reserved2Field # <<0, 0, 0, 0>>
    \/ ~HasTextureMask

\* C11: ReadHeader returns an error and no header for every input whose
\* magic is not "DDS ", whose header size is not 124, whose pixel-format
\* size is not 32, whose Reserved2 is not 0, whose flags lack a bit of the
\* texture mask, or that is shorter than 128 bytes; and it accepts every
\* header written by WriteMagic and WriteHeader from CreateHeaderRGBA8,
\* returning the field values that were written.
C11_ReadHeaderRejectsAndAccepts ==
    hres # NotRead =>
        /\ Malformed => hres.err # "" /\ hres.h = <<>>
        /\ hbytes = WriteMagic \o WriteHeader(Header(hmade)) =>
              hres = [err |-> "", h |-> Header(hmade)]

\* a header of 128 bytes whose only fault is a missing flag was rejected
C11_Witness ==
    /\ hres # NotRead
    /\ hres.err = "invalid header flags"
    /\ Len(hbytes) = 128
    /\ FlagsField[1] % 8 = 3
    /\ hmade.Width = 70000 /\ hmade.MipMapCount = 11

\* a written header of a 70000 x 4 image with 11 levels was read back
HdrReadBack ==
    /\ hres # NotRead
    /\ hres.err = ""
    /\ hres.h = Header(hmade)
    /\ hres.h.Width = [hi |-> 1, lo |-> 4464]
    /\ hres.h.PixelFormat.ABitMask = [hi |-> 65280, lo |-> 0]
    /\ hmade.MipMapCount = 11

-----------------------------------------------------------------------------
(***************************************************************************)
(* internal/bcn: the BC1, BC3 and BC4 block codecs                         *)
(*                                                                         *)
(* A block is the [16]ColorRGBA of the source, a sequence of 16 records;   *)
(* an encoded block is its sequence of bytes.  Index k of the source is    *)
(* position k + 1 here.                                                    *)
(***************************************************************************)

ColorRGBA(r, g, b, a) == [R |-> r, G |-> g, B |-> b, A |-> a]

\* x << k truncated to uint8
Shl8(x, k) == (x * 2 ^ k) % 256

\* ---- common.go ----

to565(c) ==
    BitOr(BitOr(BitAnd(c.R, 248) * 256, BitAnd(c.G, 252) * 8), Shr(c.B, 3))

from565(v) ==
    ColorRGBA(BitAnd(Shr(v, 8), 248), BitAnd(Shr(v, 3), 252),
              BitAnd((v * 8) % 65536, 248), 255)

luminance(c) == c.R + c.G * 2 + c.B

sqrDistance(c, other) ==
    (c.R - other.R) * (c.R - other.R) + (c.G - other.G) * (c.G - other.G)
        + (c.B - other.B) * (c.B - other.B)

mix21Over3(x, y) == (2 * x + y) \div 3

mix12Over3(x, y) == (x + 2 * y) \div 3

mix11Over2(x, y) == (x + y) \div 2

mix21Over3Saturate(c, other) ==
    ColorRGBA(mix21Over3(c.R, other.R), mix21Over3(c.G, other.G),
              mix21Over3(c.B, other.B), 255)

mix12Over3Saturate(c, other) ==
    ColorRGBA(mix12Over3(c.R, other.R), mix12Over3(c.G, other.G),
              mix12Over3(c.B, other.B), 255)

mix11Over2Saturate(c, other) ==
    ColorRGBA(mix11Over2(c.R, other.R), mix11Over2(c.G, other.G),
              mix11Over2(c.B, other.B), 255)

\* the loop of minMaxLuminance from pixel i on
RECURSIVE LuminanceLoop(_, _, _)
LuminanceLoop(pixels, i, m) ==
    IF i > Len(pixels) THEN m
    ELSE LET lum == luminance(pixels[i])
             up == IF lum > m.maxLum
                   THEN [m EXCEPT !.maxLum = lum, !.maxColor = pixels[i]]
                   ELSE m
         IN  LuminanceLoop(pixels, i + 1,
                           IF lum < up.minLum
                           THEN [up EXCEPT !.minLum = lum, !.minColor = pixels[i]]
                           ELSE up)

minMaxLuminance(pixels) ==
    LuminanceLoop(pixels, 1,
                  [maxLum |-> -1, minLum |-> 2147483647,
                   maxColor |-> pixels[1], minColor |-> pixels[1]])

\* bestIdx of encodeColorTableBC1BC3: the first reference colour at the
\* least distance (the comparison of the loop is strict)
ClosestColor(p, refColors) ==
    CHOOSE j \in 0..3 :
        /\ \A k \in 0..3 : sqrDistance(p, refColors[j + 1]) <= sqrDistance(p, refColors[k + 1])
        /\ \A k \in 0..(j - 1) : sqrDistance(p, refColors[k + 1]) > sqrDistance(p, refColors[j + 1])

colorIndices(pixels, refColors, hasAlpha) ==
    [i \in 1..16 |->
        IF hasAlpha /\ pixels[i].A < 128 THEN 3 ELSE ClosestColor(pixels[i], refColors)]

\* the uint32 colorTable, held as its four bytes, low byte first
encodeColorTableBC1BC3(pixels, refColors, hasAlpha) ==
    LET ix == colorIndices(pixels, refColors, hasAlpha)
    IN  [k \in 1..4 |->
            BitOr(BitOr(ix[4 * k - 3], ix[4 * k - 2] * 4),
                  BitOr(ix[4 * k - 1] * 16, ix[4 * k] * 64))]

\* ---- bc1.go ----

\* the locals of encodeBlockBC1 after the swap
EncoderEnds(pixels) ==
    LET mm == minMaxLuminance(pixels)
        min565 == to565(mm.minColor)
        max565 == to565(mm.maxColor)
    IN  IF max565 <= min565
        THEN [canContainAlpha |-> TRUE, min565 |-> max565, max565 |-> min565,
              minColor |-> mm.maxColor, maxColor |-> mm.minColor]
        ELSE [canContainAlpha |-> FALSE, min565 |-> min565, max565 |-> max565,
              minColor |-> mm.minColor, maxColor |-> mm.maxColor]

\* refColors of encodeBlockBC1 and of decodeBlockBC1
ReferenceColors(maxColor, minColor, hasAlpha) ==
    IF hasAlpha
    THEN <<maxColor, minColor, mix11Over2Saturate(maxColor, minColor),
           ColorRGBA(0, 0, 0, 0)>>
    ELSE <<maxColor, minColor, mix21Over3Saturate(maxColor, minColor),
           mix12Over3Saturate(maxColor, minColor)>>

encodeBlockBC1(pixels) ==
    LET e == EncoderEnds(pixels)
        refColors == ReferenceColors(e.maxColor, e.minColor, e.canContainAlpha)
    IN  <<e.max565 % 256, Shr(e.max565, 8), e.min565 % 256, Shr(e.min565, 8)>>
            \o encodeColorTableBC1BC3(pixels, refColors, e.canContainAlpha)

\* the locals of decodeBlockBC1 before its loop
DecoderEnds(bytes) ==
    LET color0_565 == BitOr(bytes[1], bytes[2] * 256)
        color1_565 == BitOr(bytes[3], bytes[4] * 256)
    IN  IF color0_565 <= color1_565
        THEN [hasAlpha |-> TRUE, minColor |-> from565(color0_565),
              maxColor |-> from565(color1_565)]
        ELSE [hasAlpha |-> FALSE, maxColor |-> from565(color0_565),
              minColor |-> from565(color1_565)]

\* (colorTable >> (i*2)) & 0x3 for pixel i of the source
TableIndex(bytes, i) == BitAnd(Shr(bytes[5 + (i \div 4)], 2 * (i % 4)), 3)

decodeBlockBC1(bytes) ==
    LET d == DecoderEnds(bytes)
        refColors == ReferenceColors(d.maxColor, d.minColor, d.hasAlpha)
    IN  [i \in 1..16 |->
            LET idx == TableIndex(bytes, i - 1)
            IN  IF d.hasAlpha /\ idx = 3
                THEN [refColors[idx + 1] EXCEPT !.A = 0]
                ELSE refColors[idx + 1]]

\* ---- bc4.go ----

interpolateSeventh(a0, a1, num) == ((7 - num) * a0 + num * a1 + 3) \div 7

interpolateFifth(a0, a1, num) == ((5 - num) * a0 + num * a1 + 2) \div 5

genAlphaRef(alpha0, alpha1) ==
    IF alpha0 > alpha1
    THEN <<alpha0, alpha1,
           interpolateSeventh(alpha0, alpha1, 1), interpolateSeventh(alpha0, alpha1, 2),
           interpolateSeventh(alpha0, alpha1, 3), interpolateSeventh(alpha0, alpha1, 4),
           interpolateSeventh(alpha0, alpha1, 5), interpolateSeventh(alpha0, alpha1, 6)>>
    ELSE <<alpha0, alpha1,
           interpolateFifth(alpha0, alpha1, 1), interpolateFifth(alpha0, alpha1, 2),
           interpolateFifth(alpha0, alpha1, 3), interpolateFifth(alpha0, alpha1, 4),
           0, 255>>

\* the loop of minMaxAlpha from pixel i on
RECURSIVE AlphaLoop(_, _, _)
AlphaLoop(pixels, i, m) ==
    IF i > Len(pixels) THEN m
    ELSE AlphaLoop(pixels, i + 1,
                   [minAlpha |-> IF pixels[i].A < m.minAlpha THEN pixels[i].A ELSE m.minAlpha,
                    maxAlpha |-> IF pixels[i].A > m.maxAlpha THEN pixels[i].A ELSE m.maxAlpha])

minMaxAlpha(pixels) == AlphaLoop(pixels, 1, [minAlpha |-> 255, maxAlpha |-> 0])

\* indices of encodeBlockBC4: the first reference alpha at the least delta
alphaIndices(pixels) ==
    LET mm == minMaxAlpha(pixels)
        alphaRef == genAlphaRef(mm.maxAlpha, mm.minAlpha)
    IN  [i \in 1..16 |->
            CHOOSE j \in 0..7 :
                /\ \A k \in 0..7 :
                       Abs(alphaRef[j + 1] - pixels[i].A) <= Abs(alphaRef[k + 1] - pixels[i].A)
                /\ \A k \in 0..(j - 1) :
                       Abs(alphaRef[k + 1] - pixels[i].A) > Abs(alphaRef[j + 1] - pixels[i].A)]

\* three bytes of alphaTable from the eight indices starting at ix[o + 1]
AlphaTableHalf(ix, o) ==
    <<BitOr(BitOr(Shl8(ix[o + 1], 0), Shl8(ix[o + 2], 3)), Shl8(ix[o + 3], 6)),
      BitOr(BitOr(Shr(ix[o + 3], 2), Shl8(ix[o + 4], 1)),
            BitOr(Shl8(ix[o + 5], 4), Shl8(ix[o + 6], 7))),
      BitOr(BitOr(Shr(ix[o + 6], 1), Shl8(ix[o + 7], 2)), Shl8(ix[o + 8], 5))>>

\* an alphaTable whose bytes drop the bits carried over from the byte before
alphaTableNoCarry(ix) ==
    [k \in 1..6 |-> IF k % 3 = 1 THEN (AlphaTableHalf(ix, 0) \o AlphaTableHalf(ix, 8))[k]
                    ELSE 0]

alphaTable(ix) == AlphaTableHalf(ix, 0) \o AlphaTableHalf(ix, 8)

encodeBlockBC4(pixels) ==
    <<minMaxAlpha(pixels).maxAlpha, minMaxAlpha(pixels).minAlpha>>
        \o alphaTable(alphaIndices(pixels))

\* the eight indices unpacked from the three bytes starting at t[o + 1]
IndicesHalf(t, o) ==
    <<BitAnd(Shr(t[o + 1], 0), 7),
      BitAnd(Shr(t[o + 1], 3), 7),
      BitOr(BitAnd(Shr(t[o + 1], 6), 3), BitAnd(Shl8(t[o + 2], 2), 4)),
      BitAnd(Shr(t[o + 2], 1), 7),
      BitAnd(Shr(t[o + 2], 4), 7),
      BitOr(BitAnd(Shr(t[o + 2], 7), 1), BitAnd(Shl8(t[o + 3], 1), 6)),
      BitAnd(Shr(t[o + 3], 2), 7),
      BitAnd(Shr(t[o + 3], 5), 7)>>

\* indices of decodeBlockBC4
unpackIndices(bytes) ==
    IndicesHalf(SubSeq(bytes, 3, 8), 0) \o IndicesHalf(SubSeq(bytes, 3, 8), 3)

decodeBlockBC4(bytes) ==
    [i \in 1..16 |-> genAlphaRef(bytes[1], bytes[2])[unpackIndices(bytes)[i] + 1]]

\* ---- bc3.go ----

encodeBlockBC3(pixels) == encodeBlockBC4(pixels) \o encodeBlockBC1(pixels)

decodeBlockBC3(bytes) ==
    LET alphas == decodeBlockBC4(SubSeq(bytes, 1, 8))
        colorBlock == decodeBlockBC1(SubSeq(bytes, 9, 16))
    IN  [i \in 1..16 |-> [colorBlock[i] EXCEPT !.A = alphas[i]]]

\* ---- the blocks handed to the codecs ----

BlockColors ==
    {<<0, 0, 0>>, <<255, 0, 0>>, <<0, 255, 0>>, <<255, 255, 255>>,
     <<8, 0, 0>>, <<0, 8, 0>>, <<0, 0, 9>>}

BlockAlphas == {0, 128, 255}

BlockPixels == {ColorRGBA(c[1], c[2], c[3], a) : c \in BlockColors, a \in BlockAlphas}

\* four columns of one alpha value repeated on the four rows
TiledBlocks ==
    {[i \in 1..16 |-> ColorRGBA(q[((i - 1) % 4) + 1][1], q[((i - 1) % 4) + 1][2],
                                q[((i - 1) % 4) + 1][3], a)] :
        q \in [1..4 -> BlockColors], a \in BlockAlphas}

\* one pixel that differs from all the others
SpotBlocks ==
    {[i \in 1..16 |-> IF i = at THEN p ELSE rest] :
        at \in 1..16, p \in BlockPixels, rest \in BlockPixels}

\* one colour under an alpha ramp of step 17 that starts at pixel `at`
RampBlocks ==
    {[i \in 1..16 |-> ColorRGBA(c[1], c[2], c[3], ((i + at) % 16) * 17)] :
        at \in 1..16, c \in BlockColors}

MaxRounds == 2

\* the block the next encoding takes: the source, or the last decoding
CurrentBlock == IF bout = <<>> THEN bsrc ELSE bout[Len(bout)]

InitBcn ==
    /\ IdlePack
    /\ IdleEdds
    /\ IdleLz4
    /\ IdleSet
    /\ IdleHdr
    /\ IdleName
    /\ IdleFlags
    /\ IdleRun
    /\ IdleBin
    /\ IdleRoll
    /\ IdleSkip
    /\ bsrc \in TiledBlocks \cup SpotBlocks \cup RampBlocks
    /\ bformat \in {"BC1", "BC3"}
    /\ bdata = <<>>
    /\ bout = <<>>

\* encodeBlockBC1 or encodeBlockBC3 on the source, or on what was decoded
BcnEncode ==
    /\ bdata = <<>>
    /\ Len(bout) < MaxRounds
    /\ bdata' = IF bformat = "BC1" THEN encodeBlockBC1(CurrentBlock)
                ELSE encodeBlockBC3(CurrentBlock)
    /\ UNCHANGED <<bsrc, bformat, bout>>
    /\ UNCHANGED <<packVars, eddsVars, lz4Vars, setVars, hdrVars, nameVars, flagVars, runVars, binVars, rollVars, skipVars>>

\* decodeBlockBC1 or decodeBlockBC3 on the encoded block
BcnDecode ==
    /\ bdata # <<>>
    /\ bout' = Append(bout, IF bformat = "BC1" THEN decodeBlockBC1(bdata)
                            ELSE decodeBlockBC3(bdata))
    /\ bdata' = <<>>
    /\ UNCHANGED <<bsrc, bformat>>
    /\ UNCHANGED <<packVars, eddsVars, lz4Vars, setVars, hdrVars, nameVars, flagVars, runVars, binVars, rollVars, skipVars>>

NextBcn == BcnEncode \/ BcnDecode

SpecBcn == InitBcn /\ [][NextBcn]_vars

-----------------------------------------------------------------------------
(***************************************************************************)
(* internal/bcn: properties of the block codecs                            *)
(***************************************************************************)

\* an encoded block is pending: bdata is the encoding of CurrentBlock
Encoded(format) == bformat = format /\ bdata # <<>>

\* round n is over: bout[n] is the decoding of the encoding of EncodedAt(n)
EncodedAt(n) == IF n = 1 THEN bsrc ELSE bout[n - 1]

\* the reference colours on the two sides of an encoded BC1 block
EncoderColors(pixels) ==
    ReferenceColors(EncoderEnds(pixels).maxColor, EncoderEnds(pixels).minColor,
                    EncoderEnds(pixels).canContainAlpha)

DecoderColors(bytes) ==
    ReferenceColors(DecoderEnds(bytes).maxColor, DecoderEnds(bytes).minColor,
                    DecoderEnds(bytes).hasAlpha)

\* C12: decodeBlockBC1 detects the mode (alpha or opaque) that encodeBlockBC1
\* used for the block, and regenerates exactly the four reference colours the
\* encoder selected the indices against.
C12_DecoderSeesEncoderMode ==
    Encoded("BC1") =>
        /\ DecoderEnds(bdata).hasAlpha = EncoderEnds(CurrentBlock).canContainAlpha
        /\ DecoderColors(bdata) = EncoderColors(CurrentBlock)

\* what the code does about the mode: the decoder agrees with the encoder
\* exactly when the encoder did not swap two different 565 values
ModeLostExactlyWhenSwapped ==
    Encoded("BC1") =>
        LET e == EncoderEnds(CurrentBlock)
        IN  (DecoderEnds(bdata).hasAlpha # e.canContainAlpha)
                <=> (e.canContainAlpha /\ e.max565 # e.min565)

\* a block whose brightest pixel has the smaller 565 value is encoded in
\* alpha mode and decoded in opaque mode
ModeLost ==
    /\ Encoded("BC1")
    /\ EncoderEnds(CurrentBlock).canContainAlpha
    /\ ~DecoderEnds(bdata).hasAlpha

\* a block of one opaque colour that is no 565 value: the modes agree and the
\* reference colours differ
ColorsRounded ==
    /\ Encoded("BC1")
    /\ bout = <<>>
    /\ \A i \in 1..16 : bsrc[i] = ColorRGBA(255, 255, 255, 255)
    /\ DecoderEnds(bdata).hasAlpha = EncoderEnds(bsrc).canContainAlpha
    /\ DecoderColors(bdata) # EncoderColors(bsrc)

AllOpaque(pixels) == \A i \in 1..16 : pixels[i].A = 255

\* C13: for a block whose pixels are all opaque, decoding the encoding of
\* the decoded encoding gives the decoded encoding again.
C13_SecondRoundIsStable ==
    (bformat = "BC1" /\ Len(bout) = 2 /\ AllOpaque(bsrc)) => bout[2] = bout[1]

\* an opaque block of three dark colours whose second round differs
SecondRoundDiffers ==
    /\ bformat = "BC1" /\ Len(bout) = 2 /\ AllOpaque(bsrc)
    /\ \A i \in 1..16 : bsrc[i] \in {ColorRGBA(8, 0, 0, 255), ColorRGBA(0, 8, 0, 255),
                                     ColorRGBA(0, 0, 9, 255)}
    /\ bout[1][3] = ColorRGBA(2, 5, 0, 255)
    /\ bout[2][3] = ColorRGBA(5, 2, 0, 255)

\* the second round of an opaque block differs only after a lost mode
SecondRoundDiffersOnlyAfterModeLoss ==
    (bformat = "BC1" /\ Len(bout) = 2 /\ AllOpaque(bsrc) /\ bout[2] # bout[1]) =>
        \/ EncoderEnds(bsrc).canContainAlpha /\ EncoderEnds(bsrc).max565 # EncoderEnds(bsrc).min565
        \/ EncoderEnds(bout[1]).canContainAlpha
               /\ EncoderEnds(bout[1]).max565 # EncoderEnds(bout[1]).min565

UniformAlpha(pixels, a) == \A i \in 1..16 : pixels[i].A = a

\* C14: a BC3 block encoded from pixels of one alpha value decodes to that
\* alpha value at every pixel, and decodeBlockBC4 unpacks exactly the sixteen
\* 3-bit indices that encodeBlockBC4 packed.
C14_UniformAlphaAndIndicesSurvive ==
    /\ Encoded("BC3") => unpackIndices(SubSeq(bdata, 1, 8)) = alphaIndices(CurrentBlock)
    /\ (bformat = "BC3" /\ bdata = <<>> /\ bout # <<>>) =>
           \A a \in 0..255 :
               UniformAlpha(EncodedAt(Len(bout)), a) => UniformAlpha(bout[Len(bout)], a)

\* a block of several colours and alpha 128 everywhere has been through BC3
C14_Witness ==
    /\ bformat = "BC3" /\ Len(bout) = 1 /\ bdata = <<>>
    /\ UniformAlpha(bsrc, 128)
    /\ \E i, j \in 1..16 : bsrc[i] # bsrc[j]
    /\ UniformAlpha(bout[1], 128)

\* an alpha ramp whose third index spans two bytes of the table is pending
RampPacked ==
    /\ Encoded("BC3")
    /\ alphaIndices(bsrc)[3] >= 4 /\ alphaIndices(bsrc)[6] % 2 = 1
    /\ Cardinality({alphaIndices(bsrc)[i] : i \in 1..16}) = 8

Opaque(pixels) == [i \in 1..16 |-> [pixels[i] EXCEPT !.A = 255]]

RGB(pixels) == [i \in 1..16 |-> <<pixels[i].R, pixels[i].G, pixels[i].B>>]

\* C15: the colour half of encodeBlockBC3 is what BC1 encodes when no pixel
\* is taken for transparent: no colour index is forced to transparent black,
\* and decodeBlockBC3 returns no black pixel only because its alpha is below 128.
C15_ColorHalfIgnoresAlpha ==
    /\ Encoded("BC3") => SubSeq(bdata, 9, 16) = encodeBlockBC1(Opaque(CurrentBlock))
    /\ (bformat = "BC3" /\ bdata = <<>> /\ bout # <<>>) =>
           RGB(bout[Len(bout)])
               = RGB(decodeBlockBC1(encodeBlockBC1(Opaque(EncodedAt(Len(bout))))))

\* a red block of alpha 0 everywhere comes back black
RedReturnedBlack ==
    /\ bformat = "BC3" /\ Len(bout) = 1
    /\ \A i \in 1..16 : bsrc[i] = ColorRGBA(255, 0, 0, 0)
    /\ \A i \in 1..16 : bout[1][i] = ColorRGBA(0, 0, 0, 0)

\* the colour half depends on alpha only in the alpha path of encodeBlockBC1
ColorHalfIgnoresAlphaInOpaquePath ==
    (Encoded("BC3") /\ ~EncoderEnds(CurrentBlock).canContainAlpha) =>
        SubSeq(bdata, 9, 16) = encodeBlockBC1(Opaque(CurrentBlock))

-----------------------------------------------------------------------------
(***************************************************************************)
(* cmd/imageset-packer/main.go: NormalizeName on its own                   *)
(***************************************************************************)

MaxInputLen == 4

\* letters of both cases, a digit, and four characters that are neither:
\* '_', ' ', '-' and the non-ASCII letter 'é'
InputChars == {"a", "B", "z", "7", "_", " ", "é"}

\* the inputs of TestNormalizeName
TestedNames ==
    {<<"M", "y", " ", "I", "c", "o", "n", " ", "N", "a", "m", "e">>,
     <<"U", "I", "@", "@", "B", "u", "t", "t", "o", "n", "#", "#", "O", "K">>,
     <<"m", "y", " ", "i", "c", "o", "n", " ", "n", "a", "m", "e">>,
     <<"H", "P", "_", "B", "a", "r", "-", "4", "2">>,
     <<"_", "_", "_">>}

InputNames ==
    TestedNames \cup UNION {[1..n -> InputChars] : n \in 0..MaxInputLen}

InitName ==
    /\ IdlePack
    /\ IdleEdds
    /\ IdleLz4
    /\ IdleSet
    /\ IdleHdr
    /\ IdleBcn
    /\ IdleFlags
    /\ IdleRun
    /\ IdleBin
    /\ IdleRoll
    /\ IdleSkip
    /\ ninput \in InputNames
    /\ nsnake = <<>>
    /\ ncamel = <<>>
    /\ ndone = {}

\* NormalizeName(input, false)
NameSnake ==
    /\ "snake" \notin ndone
    /\ nsnake' = NormalizeName(ninput, FALSE)
    /\ ndone' = ndone \cup {"snake"}
    /\ UNCHANGED <<ninput, ncamel>>
    /\ UNCHANGED <<packVars, eddsVars, lz4Vars, setVars, hdrVars, bcnVars, flagVars, runVars, binVars, rollVars, skipVars>>

\* NormalizeName(input, true)
NameCamel ==
    /\ "camel" \notin ndone
    /\ ncamel' = NormalizeName(ninput, TRUE)
    /\ ndone' = ndone \cup {"camel"}
    /\ UNCHANGED <<ninput, nsnake>>
    /\ UNCHANGED <<packVars, eddsVars, lz4Vars, setVars, hdrVars, bcnVars, flagVars, runVars, binVars, rollVars, skipVars>>

NextName == NameSnake \/ NameCamel

SpecName == InitName /\ [][NextName]_vars

\* ---- the identifier the documentation describes ----

\* where a maximal run of ASCII letters and digits starts, and where it ends
RunStarts(s) ==
    {i \in 1..Len(s) :
        isAsciiAlphaNum(s[i]) /\ (i = 1 \/ ~isAsciiAlphaNum(s[i - 1]))}

RunEnd(s, i) ==
    CHOOSE j \in i..Len(s) :
        /\ \A k \in i..j : isAsciiAlphaNum(s[k])
        /\ j = Len(s) \/ ~isAsciiAlphaNum(s[j + 1])

\* the k-th smallest element of a set of numbers
Nth(S, k) == CHOOSE x \in S : Cardinality({y \in S : y < x}) = k - 1

\* the runs in order, lower-cased
Runs(s) ==
    [k \in 1..Cardinality(RunStarts(s)) |->
        [i \in 1..(RunEnd(s, Nth(RunStarts(s), k)) - Nth(RunStarts(s), k) + 1) |->
            toLowerAscii(s[Nth(RunStarts(s), k) + i - 1])]]

\* the runs joined by '_'
RECURSIVE SnakeOf(_)
SnakeOf(runs) ==
    IF runs = <<>> THEN <<>>
    ELSE IF Len(runs) = 1 THEN runs[1]
    ELSE SnakeOf(SubSeq(runs, 1, Len(runs) - 1)) \o <<"_">> \o runs[Len(runs)]

\* the runs with their first letter upper-cased, one after the other
RECURSIVE CamelOf(_)
CamelOf(runs) ==
    IF runs = <<>> THEN <<>>
    ELSE CamelOf(SubSeq(runs, 1, Len(runs) - 1))
             \o <<toUpperAscii(runs[Len(runs)][1])>> \o Tail(runs[Len(runs)])

\* C16: NormalizeName is the maximal runs of ASCII letters and digits of the
\* input, lower-cased, joined by '_' in snake mode and concatenated with the
\* first letter upper-cased in camel mode; both modes are built from the same
\* runs, and the result is empty when the input has no ASCII letter or digit.
C16_NormalizeNameJoinsRuns ==
    /\ "snake" \in ndone => nsnake = SnakeOf(Runs(ninput))
    /\ "camel" \in ndone => ncamel = CamelOf(Runs(ninput))
    /\ (ndone # {} /\ \A i \in 1..Len(ninput) : ~isAsciiAlphaNum(ninput[i])) =>
           nsnake = <<>> /\ ncamel = <<>>

\* "HP_Bar-42" was normalized in both modes
C16_Witness ==
    /\ ndone = {"snake", "camel"}
    /\ ninput = <<"H", "P", "_", "B", "a", "r", "-", "4", "2">>
    /\ nsnake = <<"h", "p", "_", "b", "a", "r", "_", "4", "2">>
    /\ ncamel = <<"H", "p", "B", "a", "r", "4", "2">>

\* a non-ASCII letter between two letters separates two tokens
NonAsciiSplits ==
    /\ ndone = {"snake", "camel"}
    /\ ninput = <<"a", "é", "B">>
    /\ nsnake = <<"a", "_", "b">>
    /\ ncamel = <<"A", "B">>

-----------------------------------------------------------------------------
(***************************************************************************)
(* internal/imageset/read.go: ReadFile on a file with a Flags line         *)
(***************************************************************************)

MaxFlagWords == 3

\* a word of a Flags value and what the documentation says it stands for
FlagsWord(chars, known, value) == [text |-> chars, known |-> known, v |-> value]

FlagWordSet ==
    {FlagsWord(Kw.ISHorizontalTile, TRUE, 1), FlagsWord(Kw.ISVerticalTile, TRUE, 2),
     FlagsWord(<<"3">>, TRUE, 3), FlagsWord(<<"4">>, TRUE, 4),
     FlagsWord(<<"T", "i", "l", "e">>, FALSE, 0)}

\* whitespace, '+' and '|', with and without spaces around them
FlagSeparators ==
    {<<" ">>, <<"+">>, <<"|">>, <<" ", "+", " ">>, <<" ", "|", " ">>, <<"+", " ">>}

FlagLines ==
    UNION {{[words |-> w, seps |-> s] :
               w \in [1..n -> FlagWordSet], s \in [1..(n - 1) -> FlagSeparators]} :
           n \in 1..MaxFlagWords}

\* the value as written: the words with the separators between them
RECURSIVE FlagsText(_, _)
FlagsText(words, seps) ==
    IF Len(words) = 1 THEN words[1].text
    ELSE words[1].text \o seps[1] \o FlagsText(Tail(words), Tail(seps))

\* a file of one root image whose Flags line holds the value
FlagsFile(l) ==
    <<Line(0, <<Kw.ImageSetClass, <<"{">>>>),
      Line(1, <<Kw.Images, <<"{">>>>),
      Line(2, <<Kw.ImageSetDefClass, <<"i", "c", "o", "n">>, <<"{">>>>),
      Line(3, <<Kw.Flags, FlagsText(l.words, l.seps)>>),
      Line(2, <<<<"}">>>>),
      Line(1, <<<<"}">>>>),
      Line(0, <<<<"}">>>>)>>

InitFlags ==
    /\ IdlePack
    /\ IdleEdds
    /\ IdleLz4
    /\ IdleHdr
    /\ IdleBcn
    /\ IdleName
    /\ IdleRun
    /\ IdleBin
    /\ IdleRoll
    /\ IdleSkip
    /\ fline \in FlagLines
    /\ entity = ZeroImageSet
    /\ useCamelCase = FALSE
    /\ text = FlagsFile(fline)
    /\ ipc = "scan"
    /\ rd = NewReader

NextFlags == SetScan \/ SetReturn

SpecFlags == InitFlags /\ [][NextFlags]_vars

\* the bitwise OR of the values of the words, bit by bit
OrOfWords(words) ==
    LET has(b) == \E i \in 1..Len(words) : (words[i].v \div b) % 2 = 1
    IN  (IF has(1) THEN 1 ELSE 0) + (IF has(2) THEN 2 ELSE 0) + (IF has(4) THEN 4 ELSE 0)

AllKnown(words) == \A i \in 1..Len(words) : words[i].known

\* C17: a Flags value made of integers and of the tokens ISHorizontalTile
\* and ISVerticalTile, separated by whitespace, '+' or '|' with or without
\* spaces around the separator, is accepted and read as the bitwise OR of the
\* values; a value with any other token makes ReadFile return an error.
C17_FlagsAcceptedIffKnown ==
    ipc = "done" =>
        IF AllKnown(fline.words)
        THEN /\ rd.err = ""
             /\ Len(rd.is.Images) = 1
             /\ rd.is.Images[1].Flags = OrOfWords(fline.words)
        ELSE rd.err # ""

\* a separator with a space in it
HasSpace(sep) == \E i \in 1..Len(sep) : sep[i] = " "

\* what the code does: the claim holds for the values whose separators all
\* hold a space, and a value with a bare '+' or '|' between two words is an
\* error whatever the words
FlagsAcceptedIffKnownAndSpaced ==
    ipc = "done" =>
        IF \A i \in 1..Len(fline.seps) : HasSpace(fline.seps[i])
        THEN IF AllKnown(fline.words)
             THEN /\ rd.err = ""
                  /\ Len(rd.is.Images) = 1
                  /\ rd.is.Images[1].Flags = OrOfWords(fline.words)
             ELSE rd.err # ""
        ELSE rd.err = "invalid Flags value"

\* "ISHorizontalTile+ISVerticalTile" was refused
BarePlusRefused ==
    /\ ipc = "done"
    /\ fline = [words |-> <<FlagsWord(Kw.ISHorizontalTile, TRUE, 1),
                            FlagsWord(Kw.ISVerticalTile, TRUE, 2)>>,
                seps |-> <<<<"+">>>>]
    /\ rd.err = "invalid Flags value"

\* "3 | ISHorizontalTile+ 4" was read as 7
MixRead ==
    /\ ipc = "done" /\ rd.err = ""
    /\ fline = [words |-> <<FlagsWord(<<"3">>, TRUE, 3), FlagsWord(Kw.ISHorizontalTile, TRUE, 1),
                            FlagsWord(<<"4">>, TRUE, 4)>>,
                seps |-> <<<<" ", "|", " ">>, <<"+", " ">>>>]
    /\ rd.is.Images[1].Flags = 7

-----------------------------------------------------------------------------
(***************************************************************************)
(* internal/packer/pack.go as one function, and internal/cli/pack.go:      *)
(* runPack with --force and without --skip-unchanged, run twice on the     *)
(* same input directory, each time into an empty output directory          *)
(***************************************************************************)

\* the placement loop of Pack from image i on
RECURSIVE PlaceAll(_, _, _, _, _)
PlaceAll(l, i, m, c, acc) ==
    IF i > Len(l) THEN [ok |-> TRUE, Placements |-> acc]
    ELSE IF ~InsertImage(m, l[i], c, EffectiveRule(c)).ok
    THEN [ok |-> FALSE, Placements |-> <<>>]
    ELSE PlaceAll(l, i + 1, InsertImage(m, l[i], c, EffectiveRule(c)).bin, c,
                  Append(acc, PlacementOf(l[i], InsertImage(m, l[i], c, EffectiveRule(c)).rect, c)))

PackError == [err |-> TRUE, Width |-> 0, Height |-> 0, Placements |-> <<>>]

\* Pack(images, cfg), with sorted the order sort.Slice left imgs in
Pack(l, c, sorted) ==
    IF ~validateConfig(c) THEN PackError
    ELSE IF Len(l) = 0
    THEN [err |-> FALSE, Width |-> c.MinSize, Height |-> c.MinSize, Placements |-> <<>>]
    ELSE IF findOptimalSize(sorted, c).w > c.MaxSize \/ findOptimalSize(sorted, c).h > c.MaxSize
    THEN PackError
    ELSE LET best == findOptimalSize(sorted, c)
             p == PlaceAll(sorted, 1, newMaxRects(best.w, best.h, c.AllowRotate), c, <<>>)
         IN  IF ~p.ok THEN PackError
             ELSE [err |-> FALSE, Width |-> best.w, Height |-> best.h,
                   Placements |-> p.Placements]

\* ---- runPack ----

MaxFiles == 3

\* base names of the input files; "a" and "a_" are one identifier
RunNames == {<<"a">>, <<"a", "_">>, <<"b">>}

RunGroups == {<<>>, <<"g">>, <<"h">>}

\* an imageFile: an image as wide as its name is long
RunFiles ==
    {[name |-> n, groupName |-> g, width |-> Len(n), height |-> 1] :
        n \in RunNames, g \in RunGroups}

\* opts.Name, and the packer.Config made of opts.Packing, with and without --rotate
RunName == <<"u", "i">>

RunConfigs ==
    [MinSize : {2}, MaxSize : {8}, Gap : {0}, Rule : {BottomLeft}, AspectPenalty : {1},
     PreferHeight : {FALSE}, ForceSquare : {FALSE}, AllowRotate : BOOLEAN]

imageInfos(files) ==
    [k \in 1..Len(files) |->
        [Name |-> files[k].name, Width |-> files[k].width, Height |-> files[k].height]]

\* the loop "detect name collisions (global)": whether it returns the error
DuplicateName(files) ==
    \E i, j \in 1..Len(files) : i < j /\ files[i].name = files[j].name

\* byte order of the characters of a name
CharCode(c) == IndexIn(c, DigitChars \o UpperChars \o <<"_">> \o LowerChars)

RECURSIVE StringLess(_, _)
StringLess(a, b) ==
    IF b = <<>> THEN FALSE
    ELSE IF a = <<>> THEN TRUE
    ELSE IF Head(a) # Head(b) THEN CharCode(Head(a)) < CharCode(Head(b))
    ELSE StringLess(Tail(a), Tail(b))

\* a groupNames that is left in the order the map was ranged over
sortStringsNot(names) == names

\* sort.Strings on a list of different strings
sortStrings(names) ==
    CHOOSE s \in {[k \in 1..Len(names) |-> names[p[k]]] : p \in IndexPerms(Len(names))} :
        \A i, j \in 1..Len(s) : i < j => StringLess(s[i], s[j])

\* placementMap[name]: the last placement of that name
placementOf(result, name) ==
    result.Placements[CHOOSE k \in 1..Len(result.Placements) :
                          /\ result.Placements[k].Name = name
                          /\ \A j \in (k + 1)..Len(result.Placements) :
                                 result.Placements[j].Name # name]

imgDef(result, file) ==
    [Name |-> file.name,
     Pos |-> <<placementOf(result, file.name).X, placementOf(result, file.name).Y>>,
     Size |-> <<placementOf(result, file.name).Width, placementOf(result, file.name).Height>>,
     Flags |-> 0]

\* rootImages, or groupsMap[g]: the definitions of the files of a group, in file order
RECURSIVE defsOf(_, _, _)
defsOf(result, files, g) ==
    IF files = <<>> THEN <<>>
    ELSE IF Head(files).groupName = g
    THEN <<imgDef(result, Head(files))>> \o defsOf(result, Tail(files), g)
    ELSE defsOf(result, Tail(files), g)

\* the keys of groupsMap
groupKeys(files) ==
    {files[k].groupName : k \in 1..Len(files)} \ {<<>>}

\* the orders a range over groupsMap can take
RangeOrders(keys) ==
    {s \in [1..Cardinality(keys) -> keys] : \A i, j \in 1..Cardinality(keys) : i # j => s[i] # s[j]}

\* imagesetData, groupNames being the keys in the order of the range
imagesetData(result, files, groupNames) ==
    [Name |-> RunName,
     RefSize |-> <<result.Width, result.Height>>,
     Textures |-> <<[Mpix |-> 1, Path |-> RunName \o <<".", "e", "d", "d", "s">>]>>,
     Images |-> defsOf(result, files, <<>>),
     Groups |-> [k \in 1..Len(groupNames) |->
                    [Name |-> sortStrings(groupNames)[k],
                     Images |-> defsOf(result, files, sortStrings(groupNames)[k])]]]

InitRun ==
    /\ IdlePack
    /\ IdleEdds
    /\ IdleLz4
    /\ IdleSet
    /\ IdleHdr
    /\ IdleBcn
    /\ IdleName
    /\ IdleFlags
    /\ IdleBin
    /\ IdleRoll
    /\ IdleSkip
    /\ rfiles \in SeqsUpTo(RunFiles, MaxFiles)
    /\ rcamel \in BOOLEAN
    /\ rcfg \in RunConfigs
    /\ rsorted \in sortImagesForPacking(imageInfos(rfiles), rcfg)
    /\ rpc = "check"
    /\ rerr = ""
    /\ rresult = NoPack
    /\ rdisk = NoDisk
    /\ rruns = <<>>

\* pack.go 235-247: no input, or two files of one name
RunCheck ==
    /\ rpc = "check"
    /\ IF Len(rfiles) = 0
       THEN rpc' = "done" /\ rerr' = "no input images found"
       ELSE IF DuplicateName(rfiles)
       THEN rpc' = "done" /\ rerr' = "duplicate image name"
       ELSE rpc' = "pack" /\ rerr' = rerr
    /\ UNCHANGED <<rfiles, rcamel, rcfg, rsorted, rresult, rdisk, rruns>>
    /\ UNCHANGED <<packVars, eddsVars, lz4Vars, setVars, hdrVars, bcnVars, nameVars, flagVars, binVars, rollVars, skipVars>>

\* pack.go 272-296: packer.Pack
RunPack ==
    /\ rpc = "pack"
    /\ rresult' = Pack(imageInfos(rfiles), rcfg, rsorted)
    /\ IF rresult'.err
       THEN rpc' = "done" /\ rerr' = "failed to pack images"
       ELSE rpc' = "imageset" /\ rerr' = rerr
    /\ UNCHANGED <<rfiles, rcamel, rcfg, rsorted, rdisk, rruns>>
    /\ UNCHANGED <<packVars, eddsVars, lz4Vars, setVars, hdrVars, bcnVars, nameVars, flagVars, binVars, rollVars, skipVars>>

\* pack.go 298-370: the imageset is built, its file created and written
RunImageset ==
    /\ rpc = "imageset"
    /\ \E groupNames \in RangeOrders(groupKeys(rfiles)) :
           rdisk' = [rdisk EXCEPT
                        !.imageset = Write(imagesetData(rresult, rfiles, groupNames), rcamel)]
    /\ rpc' = "edds"
    /\ UNCHANGED <<rfiles, rcamel, rcfg, rsorted, rerr, rresult, rruns>>
    /\ UNCHANGED <<packVars, eddsVars, lz4Vars, setVars, hdrVars, bcnVars, nameVars, flagVars, binVars, rollVars, skipVars>>

\* pack.go 372-393: the atlas is written, runPack returns nil
RunEdds ==
    /\ rpc = "edds"
    /\ rdisk' = [rdisk EXCEPT !.edds = rresult]
    /\ rpc' = "done"
    /\ UNCHANGED <<rfiles, rcamel, rcfg, rsorted, rerr, rresult, rruns>>
    /\ UNCHANGED <<packVars, eddsVars, lz4Vars, setVars, hdrVars, bcnVars, nameVars, flagVars, binVars, rollVars, skipVars>>

MaxRuns == 2

\* the run is over; the next one starts on the same input
RunAgain ==
    /\ rpc = "done"
    /\ Len(rruns) < MaxRuns
    /\ rruns' = Append(rruns, [err |-> rerr, result |-> rresult, disk |-> rdisk])
    /\ rpc' = IF Len(rruns) + 1 < MaxRuns THEN "check" ELSE "end"
    /\ rerr' = ""
    /\ rresult' = NoPack
    /\ rdisk' = NoDisk
    /\ UNCHANGED <<rfiles, rcamel, rcfg, rsorted>>
    /\ UNCHANGED <<packVars, eddsVars, lz4Vars, setVars, hdrVars, bcnVars, nameVars, flagVars, binVars, rollVars, skipVars>>

NextRun == RunCheck \/ RunPack \/ RunImageset \/ RunEdds \/ RunAgain

SpecRun == InitRun /\ [][NextRun]_vars

-----------------------------------------------------------------------------
(***************************************************************************)
(* runPack: name collisions, and two runs on the same input                *)
(***************************************************************************)

\* two input files that normalize to one identifier
Colliding(files, camel) ==
    \E i, j \in 1..Len(files) :
        i < j /\ NormalizeName(files[i].name, camel) = NormalizeName(files[j].name, camel)

\* the "ImageSetDefClass <id> {" lines of an imageset
DefLines(lines) ==
    {k \in 1..Len(lines) : HasPrefix(TrimSpace(lines[k]), Kw.ImageSetDefClass)}

\* C18: when two input images, in the root or in any groups, normalize to the
\* same identifier, runPack returns the name-collision error before it packs
\* and before it creates an output file; so no imageset it writes holds two
\* image definitions of one identifier.
C18_CollisionRefusedBeforeOutput ==
    /\ (rpc # "end" /\ Colliding(rfiles, rcamel)) =>
           /\ rresult = NoPack
           /\ rdisk = NoDisk
           /\ rpc = "done" => rerr = "duplicate image name"
    /\ \A i, j \in DefLines(rdisk.imageset) :
           i # j => TrimSpace(rdisk.imageset[i]) # TrimSpace(rdisk.imageset[j])

\* what the code does: the error is returned, before anything else happens,
\* exactly for two files of the same base name
DuplicateRefusedBeforeOutput ==
    /\ (rpc \in {"pack", "imageset", "edds"} \/ (rpc = "done" /\ rerr = "")) =>
           ~DuplicateName(rfiles)
    /\ (rpc = "done" /\ DuplicateName(rfiles)) =>
           rerr = "duplicate image name" /\ rresult = NoPack /\ rdisk = NoDisk

\* "a.png" and "g/a_.png" were packed into one imageset with two definitions a
TwoDefinitionsOfOneName ==
    /\ rpc = "done" /\ rerr = ""
    /\ Len(rfiles) = 2
    /\ rfiles[1].name = <<"a">> /\ rfiles[2].name = <<"a", "_">>
    /\ rfiles[2].groupName = <<"g">>
    /\ \E i, j \in DefLines(rdisk.imageset) :
           /\ i < j
           /\ TrimSpace(rdisk.imageset[i]) = TrimSpace(rdisk.imageset[j])
           /\ TrimSpace(rdisk.imageset[i])
                  = Kw.ImageSetDefClass \o <<" ">> \o (IF rcamel THEN <<"A">> ELSE <<"a">>) \o <<" ", "{">>

OtherBuildOtherOrder ==
    /\ Len(rruns) = MaxRuns /\ rruns[1].err = ""
    /\ \E s \in sortImagesForPacking(imageInfos(rfiles), rcfg) :
           Pack(imageInfos(rfiles), rcfg, s).Placements # rruns[1].result.Placements

-----------------------------------------------------------------------------
(***************************************************************************)
(* findOptimalSize under aspect penalties that produce ties                *)
(***************************************************************************)

\* AspectPenalty -1, 0, 0.25 and 1, in quarters; one MinSize that is refused
SizeConfigs ==
    [MinSize : {0, 2}, MaxSize : {8}, Gap : {0}, Rule : {BestShortSideFit, BottomLeft},
     AspectPenalty : {-4, 0, 1, 4}, PreferHeight : BOOLEAN, ForceSquare : BOOLEAN,
     AllowRotate : {FALSE}]

InitSize ==
    /\ images \in {NamedList(l) : l \in ImageLists}
    /\ cfg \in SizeConfigs
    /\ pc = "start"
    /\ imgs = <<>>
    /\ atlasW = 0
    /\ atlasH = 0
    /\ bin = NoBin
    /\ placements = <<>>
    /\ outcome = "none"
    /\ IdleEdds
    /\ IdleLz4
    /\ IdleSet
    /\ IdleHdr
    /\ IdleBcn
    /\ IdleName
    /\ IdleFlags
    /\ IdleRun
    /\ IdleBin
    /\ IdleRoll
    /\ IdleSkip

SpecSize == InitSize /\ [][NextPack]_vars

\* findOptimalSize has returned atlasW and atlasH
Sized == imgs # <<>> /\ pc \in {"placing", "done"}

\* the sides the loops of findOptimalSize run over
CandidateSides ==
    {Doublings(StartSize(imgs, cfg), cfg.MaxSize)[k] :
        k \in 1..Len(Doublings(StartSize(imgs, cfg), cfg.MaxSize))}

\* a candidate that try scores
FeasibleAt(w, h) ==
    /\ w \in CandidateSides /\ h \in CandidateSides
    /\ IF cfg.ForceSquare THEN w = h ELSE absPowerDiff(w, h) <= 1
    /\ canFitMaxRects(imgs, w, h, cfg, EffectiveRule(cfg))

\* area * (1 + AspectPenalty * (aspect - 1)) of the first is at most that of the second
ScoreAtMost(w, h, w2, h2) ==
    ScoreNum(w, h, cfg) * ScoreDen(w2, h2) <= ScoreNum(w2, h2, cfg) * ScoreDen(w, h)

\* the feasible candidates of minimal score
Tied ==
    {p \in CandidateSides \X CandidateSides :
        /\ FeasibleAt(p[1], p[2])
        /\ \A q \in CandidateSides \X CandidateSides :
               FeasibleAt(q[1], q[2]) => ScoreAtMost(p[1], p[2], q[1], q[2])}

\* C19: among the feasible candidates of minimal score findOptimalSize
\* returns the wider one by default and the taller one with PreferHeight;
\* when (a, b) and (b, a), a > b, are both feasible with the minimal score
\* the result is (a, b) by default and (b, a) with PreferHeight, whatever
\* the AspectPenalty.
C19_TieGoesToPreferredSide ==
    (Sized /\ Tied # {}) =>
        /\ <<atlasW, atlasH>> \in Tied
        /\ \A p \in Tied : IF cfg.PreferHeight THEN atlasH >= p[2] ELSE atlasW >= p[1]
        /\ \A a, b \in CandidateSides :
               (a > b /\ <<a, b>> \in Tied /\ <<b, a>> \in Tied) =>
                   <<atlasW, atlasH>> = IF cfg.PreferHeight THEN <<b, a>> ELSE <<a, b>>

\* what the code does: the result is a candidate of minimal score no narrower
\* (no lower with PreferHeight) than any other of that score, and it is the
\* candidate the claim names when the two are the only ones of that score
TieGoesToWidestOfTheTied ==
    (Sized /\ Tied # {}) =>
        /\ <<atlasW, atlasH>> \in Tied
        /\ \A p \in Tied : IF cfg.PreferHeight THEN atlasH >= p[2] ELSE atlasW >= p[1]
        /\ \A a, b \in CandidateSides :
               (a > b /\ Tied = {<<a, b>>, <<b, a>>}) =>
                   <<atlasW, atlasH>> = IF cfg.PreferHeight THEN <<b, a>> ELSE <<a, b>>

\* two 2x2 images under AspectPenalty 1: 4x2, 2x4 and 4x4 score 16, and the
\* square is returned
SquareWinsTheTie ==
    /\ Sized
    /\ Len(imgs) = 2 /\ \A k \in 1..2 : imgs[k].Width = 2 /\ imgs[k].Height = 2
    /\ cfg.AspectPenalty = 4 /\ ~cfg.ForceSquare /\ ~cfg.PreferHeight
    /\ Tied = {<<4, 2>>, <<2, 4>>, <<4, 4>>}
    /\ atlasW = 4 /\ atlasH = 4

\* the same images under AspectPenalty 0.25: 4x2 by default
WideWinsTheTie ==
    /\ Sized
    /\ Len(imgs) = 2 /\ \A k \in 1..2 : imgs[k].Width = 2 /\ imgs[k].Height = 2
    /\ cfg.AspectPenalty = 1 /\ ~cfg.ForceSquare /\ ~cfg.PreferHeight
    /\ Tied = {<<4, 2>>, <<2, 4>>}
    /\ atlasW = 4 /\ atlasH = 2

-----------------------------------------------------------------------------
(***************************************************************************)
(* Pack: the configuration is validated first                              *)
(***************************************************************************)

\* the configurations the contract of Pack refuses
Refusable(c) == c.MinSize <= 0 \/ c.MaxSize <= 0 \/ c.MinSize > c.MaxSize \/ c.Gap < 0

\* C22: whenever MinSize <= 0, MaxSize <= 0, MinSize > MaxSize or Gap < 0,
\* Pack returns an error before sorting, size search or placement, for every
\* image list including the empty one; a Config violating none of these is
\* never rejected by validateConfig (an error of Pack on it comes after the
\* sort).
C22_InvalidConfigRefusedFirst ==
    /\ (pc # "start" /\ Refusable(cfg)) =>
           /\ pc = "done" /\ outcome = "error"
           /\ imgs = <<>> /\ atlasW = 0 /\ atlasH = 0
           /\ bin = NoBin /\ placements = <<>>
    /\ ~Refusable(cfg) => validateConfig(cfg)
    /\ (pc = "done" /\ outcome = "error" /\ ~Refusable(cfg)) =>
           imgs # <<>> /\ atlasW > 0

\* the empty image list under a negative Gap alone is refused
C22_Witness ==
    /\ pc = "done" /\ outcome = "error"
    /\ images = <<>>
    /\ cfg.Gap < 0 /\ cfg.MinSize > 0 /\ cfg.MinSize <= cfg.MaxSize

\* the region drawn for a placement, grown by g pixels on its four sides
Halo(p, g) ==
    [Drawn(p) EXCEPT !.X = Drawn(p).X - g, !.Y = Drawn(p).Y - g,
                     !.Width = Drawn(p).Width + 2 * g,
                     !.Height = Drawn(p).Height + 2 * g]

\* C26: in every successful Pack with Gap g, rotation allowed or not, the
\* region drawn for each image grown by g pixels on all four sides lies
\* inside the atlas and these grown regions are pairwise disjoint: g pixels
\* to every atlas edge and 2*g pixels to every other image.
C26_HalosInBoundsDisjoint ==
    Returned =>
        /\ \A i \in 1..Len(placements) : InAtlas(Halo(placements[i], cfg.Gap))
        /\ \A i, j \in 1..Len(placements) :
               i < j => ~Intersect(Halo(placements[i], cfg.Gap), Halo(placements[j], cfg.Gap))

\* two images packed with a gap, one of them rotated
C26_Witness ==
    /\ Returned
    /\ cfg.Gap > 0
    /\ Len(placements) = 2
    /\ \E i \in 1..2 : placements[i].Rotated /\ placements[i].Width # placements[i].Height

\* the four keys of sortImagesForPacking, all descending
SortKeys(im, c) ==
    <<Max2(im.Width + 2 * c.Gap, im.Height + 2 * c.Gap),
      (im.Width + 2 * c.Gap) * (im.Height + 2 * c.Gap),
      im.Height, im.Width>>

\* the keys of a come before those of b
KeysBefore(a, b, c) ==
    \E k \in 1..4 :
        /\ SortKeys(a, c)[k] > SortKeys(b, c)[k]
        /\ \A n \in 1..(k - 1) : SortKeys(a, c)[n] = SortKeys(b, c)[n]

\* x put behind every element of s whose keys do not come after its own
RECURSIVE PutBehind(_, _, _)
PutBehind(s, x, c) ==
    IF s = <<>> THEN <<x>>
    ELSE IF KeysBefore(x, Head(s), c) THEN <<x>> \o s
    ELSE <<Head(s)>> \o PutBehind(Tail(s), x, c)

\* the stable sort of l by the four keys
RECURSIVE StableOrder(_, _, _)
StableOrder(l, n, c) ==
    IF n = 0 THEN <<>> ELSE PutBehind(StableOrder(l, n - 1, c), l[n], c)

\* C29: sortImagesForPacking returns a permutation of its input ordered by
\* max(w+2g, h+2g), then padded area, then height, then width, all
\* descending, and inputs that tie on all four keys keep their original
\* relative order.
C29_SortIsStable ==
    (pc # "start" /\ imgs # <<>>) => imgs = StableOrder(images, Len(images), cfg)

\* what the code does: a permutation in the order of the keys, the inputs
\* that tie on all four in either order
SortOrdersByKeys ==
    (pc # "start" /\ imgs # <<>>) =>
        /\ Len(imgs) = Len(images)
        /\ \A x \in SeqRange(images) : x \in SeqRange(imgs)
        /\ \A i, j \in 1..Len(imgs) : i < j => ~KeysBefore(imgs[j], imgs[i], cfg)

\* two images of the same size came out in the opposite order
TiedImagesSwapped ==
    /\ pc = "sorted"
    /\ Len(images) = 2
    /\ imgs = <<images[2], images[1]>>
    /\ SortKeys(images[1], cfg) = SortKeys(images[2], cfg)

\* two images out of order are put in order
UntiedImagesSorted ==
    /\ pc = "sorted"
    /\ Len(images) = 2
    /\ imgs = <<images[2], images[1]>>
    /\ KeysBefore(images[2], images[1], cfg)

-----------------------------------------------------------------------------
(***************************************************************************)
(* maxRects under any sequence of Insert calls                             *)
(***************************************************************************)

MaxBinSide == 4
MaxRectSide == 3
MaxInserts == 4

\* a side whose square exceeds the initial score 1<<30 of Insert
BigSide == 40000

BinSizes == ((2..MaxBinSide) \X (2..MaxBinSide)) \cup {<<BigSide, BigSide>>}

InitBin ==
    /\ mbin \in {newMaxRects(s[1], s[2], r) : s \in BinSizes, r \in BOOLEAN}
    /\ mrule \in BestShortSideFit..ContactPoint
    /\ mcall = NoCall
    /\ IdlePack
    /\ IdleEdds
    /\ IdleLz4
    /\ IdleSet
    /\ IdleHdr
    /\ IdleBcn
    /\ IdleName
    /\ IdleFlags
    /\ IdleRun
    /\ IdleRoll
    /\ IdleSkip

\* sort.go 69-104: one call of Insert on the bin
BinInsert ==
    /\ mrule # -1
    /\ Len(mbin.used) < MaxInserts
    /\ \E w \in 1..MaxRectSide, h \in 1..MaxRectSide :
         \E r \in {Insert(mbin, w, h, mrule)} :
           /\ mbin' = r.bin
           /\ mcall' = [w |-> w, h |-> h, ok |-> r.ok, rect |-> r.rect, before |-> mbin]
    /\ UNCHANGED mrule
    /\ UNCHANGED <<packVars, eddsVars, lz4Vars, setVars, hdrVars, bcnVars, nameVars, flagVars, runVars, rollVars, skipVars>>

NextBin == BinInsert

SpecBin == InitBin /\ [][NextBin]_vars

-----------------------------------------------------------------------------
(***************************************************************************)
(* Claims about the bin                                                    *)
(***************************************************************************)

InsideBin(r, m) == r.X >= 0 /\ r.Y >= 0 /\ r.X + r.W <= m.w /\ r.Y + r.H <= m.h

RectsMeet(a, b) ==
    a.X < b.X + b.W /\ b.X < a.X + a.W /\ a.Y < b.Y + b.H /\ b.Y < a.Y + a.H

\* the coordinates at which a rectangle of the bin begins or ends
EdgesX(m) ==
    {0, m.w} \cup {r.X : r \in SeqRange(m.used) \cup SeqRange(m.free)}
             \cup {r.X + r.W : r \in SeqRange(m.used) \cup SeqRange(m.free)}

EdgesY(m) ==
    {0, m.h} \cup {r.Y : r \in SeqRange(m.used) \cup SeqRange(m.free)}
             \cup {r.Y + r.H : r \in SeqRange(m.used) \cup SeqRange(m.free)}

\* one point of every cell that the edges cut the bin into; all points of a
\* cell lie in the same rectangles
CellsOf(m) ==
    {p \in EdgesX(m) \X EdgesY(m) : p[1] >= 0 /\ p[1] < m.w /\ p[2] >= 0 /\ p[2] < m.h}

Holds(r, p) == r.X <= p[1] /\ p[1] < r.X + r.W /\ r.Y <= p[2] /\ p[2] < r.Y + r.H

\* C23: after every successful Insert every free and every used rectangle
\* lies inside the bin, no two used rectangles intersect, and the union of
\* the free rectangles is exactly the part of the bin no used rectangle
\* covers.
C23_FreeIsExactlyTheUncovered ==
    mcall.ok =>
        /\ \A r \in SeqRange(mbin.free) : InsideBin(r, mbin) /\ r.W > 0 /\ r.H > 0
        /\ \A r \in SeqRange(mbin.used) : InsideBin(r, mbin)
        /\ \A i, j \in 1..Len(mbin.used) : i # j => ~RectsMeet(mbin.used[i], mbin.used[j])
        /\ \A p \in CellsOf(mbin) :
               (\E f \in SeqRange(mbin.free) : Holds(f, p))
                   <=> ~(\E u \in SeqRange(mbin.used) : Holds(u, p))

\* three rectangles are placed and two of the free rectangles overlap
C23_Witness ==
    /\ mcall.ok
    /\ Len(mbin.used) >= 3
    /\ \E i, j \in 1..Len(mbin.free) : i # j /\ RectsMeet(mbin.free[i], mbin.free[j])

\* C24: after every successful Insert no free rectangle is contained in
\* another free rectangle; in particular no two of them are equal.
C24_NoFreeInsideAnother ==
    mcall.ok =>
        \A i, j \in 1..Len(mbin.free) : i # j => ~containedIn(mbin.free[i], mbin.free[j])

\* the split of the last call left rectangles that pruneFree removed
C24_Witness ==
    /\ mcall.ok
    /\ Len(mbin.used) >= 2
    /\ Len(PlaceLoop(mcall.before.free, 1, mcall.rect)) > Len(mbin.free)

\* the (free rectangle, orientation) pairs that accommodate (w, h)
Accommodating(m, w, h) ==
    {c \in SeqRange(m.free) \X BOOLEAN :
        IF c[2] THEN m.allowRotate /\ c[1].W >= h /\ c[1].H >= w
        ELSE c[1].W >= w /\ c[1].H >= h}

CandidateRect(c, w, h) ==
    IF c[2] THEN Rect(c[1].X, c[1].Y, h, w, TRUE) ELSE Rect(c[1].X, c[1].Y, w, h, FALSE)

CandidateScore(m, rule, c, w, h) ==
    IF c[2] THEN score(m, rule, c[1], h, w) ELSE score(m, rule, c[1], w, h)

LexLess(a, b) == a[1] < b[1] \/ (a[1] = b[1] /\ a[2] < b[2])

\* C25: Insert succeeds if and only if some free rectangle accommodates
\* (w, h), unrotated or, when rotation is allowed, rotated; a rotated result
\* is never returned when rotation is disallowed; on success the result sits
\* at the origin of an accommodating candidate of lexicographically minimal
\* (pri, sec).
C25_InsertIffAccommodated ==
    mcall # NoCall =>
        LET m == mcall.before
            cands == Accommodating(m, mcall.w, mcall.h)
        IN  /\ mcall.ok <=> cands # {}
            /\ (mcall.ok /\ mcall.rect.Rotated) => m.allowRotate
            /\ mcall.ok =>
                   \E c \in cands :
                       /\ mcall.rect = CandidateRect(c, mcall.w, mcall.h)
                       /\ \A d \in cands :
                              ~LexLess(CandidateScore(m, mrule, d, mcall.w, mcall.h),
                                       CandidateScore(m, mrule, c, mcall.w, mcall.h))

\* what the code does: only candidates that score below (1<<30, 1<<30)
\* count
InsertIffAccommodatedBelowInitialScore ==
    mcall # NoCall =>
        LET m == mcall.before
            cands == {c \in Accommodating(m, mcall.w, mcall.h) :
                         LexLess(CandidateScore(m, mrule, c, mcall.w, mcall.h),
                                 <<ScoreInf, ScoreInf>>)}
        IN  /\ mcall.ok <=> cands # {}
            /\ (mcall.ok /\ mcall.rect.Rotated) => m.allowRotate
            /\ mcall.ok =>
                   \E c \in cands :
                       /\ mcall.rect = CandidateRect(c, mcall.w, mcall.h)
                       /\ \A d \in cands :
                              ~LexLess(CandidateScore(m, mrule, d, mcall.w, mcall.h),
                                       CandidateScore(m, mrule, c, mcall.w, mcall.h))

\* an empty 40000 x 40000 bin refuses a 1 x 1 rectangle under BestAreaFit
EmptyBinRefuses ==
    /\ mcall # NoCall /\ ~mcall.ok
    /\ mcall.w = 1 /\ mcall.h = 1
    /\ mrule = BestAreaFit
    /\ mcall.before = newMaxRects(BigSide, BigSide, FALSE)

\* the contact of a candidate with the used rectangles from i on: for each
\* of its four edges the common interval with the edge it abuts
RECURSIVE AbuttingLength(_, _, _, _, _, _)
AbuttingLength(used, i, x, y, w, h) ==
    IF i > Len(used) THEN 0
    ELSE LET u == used[i]
         IN  (IF u.X = x + w THEN commonInterval(u.Y, u.Y + u.H, y, y + h) ELSE 0)
             + (IF u.X + u.W = x THEN commonInterval(u.Y, u.Y + u.H, y, y + h) ELSE 0)
             + (IF u.Y = y + h THEN commonInterval(u.X, u.X + u.W, x, x + w) ELSE 0)
             + (IF u.Y + u.H = y THEN commonInterval(u.X, u.X + u.W, x, x + w) ELSE 0)
             + AbuttingLength(used, i + 1, x, y, w, h)

\* the perimeter of a candidate that lies on the walls, side by side
WallLength(m, x, y, w, h) ==
    (IF x = 0 THEN h ELSE 0) + (IF x + w = m.w THEN h ELSE 0)
    + (IF y = 0 THEN w ELSE 0) + (IF y + h = m.h THEN w ELSE 0)

\* the sides a candidate has on two opposite walls at once
BothWalls(m, x, y, w, h) ==
    (IF x = 0 /\ x + w = m.w THEN h ELSE 0) + (IF y = 0 /\ y + h = m.h THEN w ELSE 0)

\* the unrotated candidates of the current bin
Unrotated(m) ==
    {c \in SeqRange(m.free) \X ((1..MaxRectSide) \X (1..MaxRectSide)) :
        c[1].W >= c[2][1] /\ c[1].H >= c[2][2]}

\* C30: under ContactPoint the primary score of a candidate is the negation
\* of its perimeter on the bin walls, every side on a wall counted with its
\* own length, plus the length it shares with the edges of the used
\* rectangles; the secondary score is 0.
C30_ContactCountsEverySide ==
    mrule = ContactPoint =>
        \A c \in Unrotated(mbin) :
            score(mbin, mrule, c[1], c[2][1], c[2][2])
                = <<-(WallLength(mbin, c[1].X, c[1].Y, c[2][1], c[2][2])
                      + AbuttingLength(mbin.used, 1, c[1].X, c[1].Y, c[2][1], c[2][2])), 0>>

\* what the code does: two opposite walls count once
ContactCountsOppositeWallsOnce ==
    mrule = ContactPoint =>
        \A c \in Unrotated(mbin) :
            score(mbin, mrule, c[1], c[2][1], c[2][2])
                = <<-(WallLength(mbin, c[1].X, c[1].Y, c[2][1], c[2][2])
                      - BothWalls(mbin, c[1].X, c[1].Y, c[2][1], c[2][2])
                      + AbuttingLength(mbin.used, 1, c[1].X, c[1].Y, c[2][1], c[2][2])), 0>>

\* a candidate as wide as the bin, next to a used rectangle
FullWidthCandidate ==
    /\ mrule = ContactPoint
    /\ Len(mbin.used) >= 1
    /\ \E c \in Unrotated(mbin) :
           /\ c[1].X = 0 /\ c[2][1] = mbin.w
           /\ AbuttingLength(mbin.used, 1, c[1].X, c[1].Y, c[2][1], c[2][2]) > 0

-----------------------------------------------------------------------------
(***************************************************************************)
(* The rolling dictionary of decompressBlock.  A byte slice is held as a   *)
(* sequence of runs: run [src, from, len] stands for len bytes, those of   *)
(* the output at from, from+1, ... when src is "out" and zero bytes when   *)
(* src is "zero".                                                          *)
(***************************************************************************)

Run(src, from, len) == [src |-> src, from |-> from, len |-> len]

RECURSIVE RunsLength(_)
RunsLength(s) == IF s = <<>> THEN 0 ELSE Head(s).len + RunsLength(Tail(s))

\* s[:n]
RECURSIVE SliceTo(_, _)
SliceTo(s, n) ==
    IF n <= 0 \/ s = <<>> THEN <<>>
    ELSE IF Head(s).len <= n THEN <<Head(s)>> \o SliceTo(Tail(s), n - Head(s).len)
    ELSE <<Run(Head(s).src, Head(s).from, n)>>

\* s[n:]
RECURSIVE SliceFrom(_, _)
SliceFrom(s, n) ==
    IF s = <<>> THEN <<>>
    ELSE IF n <= 0 THEN s
    ELSE IF Head(s).len <= n THEN SliceFrom(Tail(s), n - Head(s).len)
    ELSE <<Run(Head(s).src, IF Head(s).src = "out" THEN Head(s).from + n ELSE 0,
               Head(s).len - n)>> \o Tail(s)

\* the bytes of a slice whatever the runs they are held in
RECURSIVE Joined(_)
Joined(s) ==
    IF s = <<>> THEN <<>>
    ELSE IF Head(s).len = 0 THEN Joined(Tail(s))
    ELSE LET rest == Joined(Tail(s))
         IN  IF /\ rest # <<>>
                /\ Head(rest).src = Head(s).src
                /\ (Head(s).src = "zero" \/ Head(rest).from = Head(s).from + Head(s).len)
             THEN <<Run(Head(s).src, Head(s).from, Head(s).len + Head(rest).len)>> \o Tail(rest)
             ELSE <<Head(s)>> \o rest

\* the builtin copy(dst[at:], src): dst afterwards
copy(dst, at, src) ==
    LET n == Min2(RunsLength(dst) - at, RunsLength(src))
    IN  Joined(SliceTo(dst, at) \o SliceTo(src, n) \o SliceFrom(dst, at + n))

\* edds.go 250-265 without the shift of the old content
RollDictUnshifted(d, size, decoded) ==
    LET n == RunsLength(decoded)
    IN  IF n >= dictCap
        THEN [dict |-> copy(d, 0, SliceFrom(decoded, n - dictCap)), dictSize |-> dictCap]
        ELSE IF n <= dictCap - size
        THEN [dict |-> copy(d, size, decoded), dictSize |-> size + n]
        ELSE [dict |-> copy(d, dictCap - n, decoded), dictSize |-> dictCap]

\* edds.go 250-265: update rolling dict
RollDict(d, size, decoded) ==
    LET n == RunsLength(decoded)
    IN  IF n >= dictCap
        THEN [dict |-> copy(d, 0, SliceFrom(decoded, n - dictCap)), dictSize |-> dictCap]
        ELSE LET avail == dictCap - size
             IN  IF n <= avail
                 THEN [dict |-> copy(d, size, decoded), dictSize |-> size + n]
                 ELSE LET shift == n - avail
                      IN  [dict |-> copy(copy(d, 0, SliceFrom(SliceTo(d, size), shift)),
                                         dictCap - n, decoded),
                           dictSize |-> dictCap]

MaxDictChunks == 5

\* what a chunk may decode to: nothing, a few bytes, half a chunk, one byte
\* less than the dictionary holds, a whole chunk
DecodedLengths == {0, 1, 4096, 32768, 65535, ChunkSize}

\* edds.go 196-203: the buffers before the first chunk
InitRoll ==
    /\ rollTarget = (MaxDictChunks - 1) * ChunkSize
    /\ rollDict = <<Run("zero", 0, dictCap)>>
    /\ rollSize = 0
    /\ rollOut = 0
    /\ rollGiven = NoGiven
    /\ IdlePack
    /\ IdleEdds
    /\ IdleLz4
    /\ IdleSet
    /\ IdleHdr
    /\ IdleBcn
    /\ IdleName
    /\ IdleFlags
    /\ IdleRun
    /\ IdleBin
    /\ IdleSkip

\* edds.go 229-265: one chunk is decoded into the target and the dictionary
\* is updated
RollChunk ==
    /\ rollTarget > 0
    /\ rollTarget - rollOut > 0
    /\ rollGiven.nth < MaxDictChunks
    /\ \E n \in DecodedLengths :
           /\ n <= Min2(ChunkSize, rollTarget - rollOut)
           /\ rollGiven' = [nth |-> rollGiven.nth + 1, at |-> rollOut,
                            dict |-> Joined(SliceTo(rollDict, rollSize))]
           /\ rollOut' = rollOut + n
           /\ \E next \in {RollDict(rollDict, rollSize, <<Run("out", rollOut, n)>>)} :
                  /\ rollDict' = next.dict
                  /\ rollSize' = next.dictSize
    /\ UNCHANGED rollTarget
    /\ UNCHANGED <<packVars, eddsVars, lz4Vars, setVars, hdrVars, bcnVars, nameVars, flagVars, runVars, binVars, skipVars>>

NextRoll == RollChunk

SpecRoll == InitRoll /\ [][NextRoll]_vars

\* the last min(dictCap, n) bytes of the first n bytes of the output
LastOfOutput(n) ==
    IF n = 0 THEN <<>> ELSE <<Run("out", n - Min2(dictCap, n), Min2(dictCap, n))>>

\* C27: after every decoded chunk the rolling dictionary holds exactly the
\* last min(64 KiB, bytes decoded so far) bytes of the output in output
\* order, its length never exceeds 64 KiB, and the chunk was decoded against
\* exactly that content as it was before the chunk.
C27_DictIsTailOfOutput ==
    rollTarget > 0 =>
        /\ rollSize <= dictCap
        /\ RunsLength(rollDict) = dictCap
        /\ Joined(SliceTo(rollDict, rollSize)) = LastOfOutput(rollOut)
        /\ rollGiven # NoGiven => rollGiven.dict = LastOfOutput(rollGiven.at)

\* a chunk shorter than the dictionary arrived when the dictionary could not
\* take it whole, and old content was shifted out
C27_Witness ==
    /\ rollGiven # NoGiven
    /\ rollOut - rollGiven.at < dictCap
    /\ rollOut > dictCap
    /\ RunsLength(rollGiven.dict) < dictCap
    /\ rollOut - rollGiven.at > dictCap - RunsLength(rollGiven.dict)

-----------------------------------------------------------------------------
(***************************************************************************)
(* ReadFile on documents whose blocks come in any order                    *)
(***************************************************************************)

NamedDef(n) == [Name |-> <<n>>, Pos |-> <<12, -3>>, Size |-> <<5, 10>>, Flags |-> 3]

\* root image lists, and groups of two, one and no images
OrderImages == {<<>>, <<NamedDef("a")>>, <<NamedDef("a"), NamedDef("b")>>,
                <<NamedDef("b"), NamedDef("a")>>}

GroupG == [Name |-> <<"g">>, Images |-> <<NamedDef("c"), NamedDef("d")>>]
GroupH == [Name |-> <<"h">>, Images |-> <<NamedDef("e")>>]
GroupK == [Name |-> <<"k">>, Images |-> <<>>]

OrderGroups == {<<>>, <<GroupH>>, <<GroupG, GroupH>>, <<GroupH, GroupG>>, <<GroupK, GroupH>>}

OrderSets ==
    {[Name |-> <<"u", "i">>, RefSize |-> <<64, 128>>, Textures |-> t, Images |-> q, Groups |-> g] :
        t \in TextureLists, q \in OrderImages, g \in OrderGroups}

\* the three blocks of the root, as Write prints each
RootBlock(is, kind) ==
    CASE kind = "Textures" ->
           Block(Kw.Textures,
                 Flatten([k \in 1..Len(is.Textures) |-> writeTexture(is.Textures[k], 2)]),
                 1, Len(is.Textures))
      [] kind = "Images" ->
           Block(Kw.Images,
                 Flatten([k \in 1..Len(is.Images) |-> writeImageDef(is.Images[k], 2, FALSE)]),
                 1, Len(is.Images))
      [] OTHER ->
           Block(Kw.Groups,
                 Flatten([k \in 1..Len(is.Groups) |-> writeGroup(is.Groups[k], 2, FALSE)]),
                 1, Len(is.Groups))

BlockOrders ==
    {o \in [1..3 -> {"Textures", "Images", "Groups"}] : \A i, j \in 1..3 : i # j => o[i] # o[j]}

\* the document of an imageset with its blocks in the given order
Document(is, order) ==
    <<Line(0, <<Kw.ImageSetClass, <<"{">>>>),
      Line(1, <<Kw.Name, Quote(is.Name)>>),
      Line(1, <<Kw.RefSize, FormatInt(is.RefSize[1]), FormatInt(is.RefSize[2])>>)>>
    \o RootBlock(is, order[1]) \o RootBlock(is, order[2]) \o RootBlock(is, order[3])
    \o <<Line(0, <<<<"}">>>>)>>

InitOrder ==
    /\ IdlePack
    /\ IdleEdds
    /\ IdleLz4
    /\ IdleHdr
    /\ IdleBcn
    /\ IdleName
    /\ IdleFlags
    /\ IdleRun
    /\ IdleBin
    /\ IdleRoll
    /\ IdleSkip
    /\ entity \in OrderSets
    /\ useCamelCase = FALSE
    /\ text \in {Document(entity, o) : o \in BlockOrders}
    /\ ipc = "scan"
    /\ rd = NewReader

NextOrder == SetScan \/ SetReturn

SpecOrder == InitOrder /\ [][NextOrder]_vars

\* C28: whatever the order of the Textures, Images and Groups blocks of a
\* document, ReadFile puts every ImageSetDefClass of the root Images block
\* into the root list and every one of a group's Images block into that
\* group, and the root images, the groups and the images of each group are
\* in document order.
C28_DefsLandWhereTheyStand ==
    ipc = "done" =>
        /\ rd.err = ""
        /\ rd.is.Images = entity.Images
        /\ rd.is.Groups = entity.Groups

\* the Groups block came first and the root Images block last, both with
\* two entries
C28_Witness ==
    /\ ipc = "done"
    /\ text = Document(entity, <<"Groups", "Textures", "Images">>)
    /\ Len(entity.Groups) = 2 /\ Len(entity.Images) = 2 /\ Len(entity.Textures) = 1
    /\ rd.is.Groups = entity.Groups

-----------------------------------------------------------------------------
(***************************************************************************)
(* runPack, run after run on one output directory, with and without        *)
(* --skip-unchanged and --force.  The content of the input files is a      *)
(* version number, the hash of version v is v, an output file holds the    *)
(* version it was made from, 0 when it does not exist and Partial when a   *)
(* failed write left it incomplete.                                        *)
(***************************************************************************)

MaxVersions == 2

Partial == -1

Exists(f) == f # 0

\* part_010 393-409
shouldSkipPack(disk, nextHash) ==
    /\ Exists(disk.cache)
    /\ disk.cache = nextHash
    /\ Exists(disk.imageset)
    /\ Exists(disk.edds)

InitSkip ==
    /\ skInputs \in 1..MaxVersions
    /\ skOpts = NoOpts
    /\ skPc = "idle"
    /\ skHash = 0
    /\ skDisk = EmptyDir
    /\ skRes = Idle
    /\ IdlePack
    /\ IdleEdds
    /\ IdleLz4
    /\ IdleSet
    /\ IdleHdr
    /\ IdleBcn
    /\ IdleName
    /\ IdleFlags
    /\ IdleRun
    /\ IdleBin
    /\ IdleRoll

\* between two runs the input files are edited
SkipEdit ==
    /\ skPc = "idle"
    /\ skInputs' \in (1..MaxVersions) \ {skInputs}
    /\ UNCHANGED <<skOpts, skPc, skHash, skDisk, skRes>>
    /\ UNCHANGED <<packVars, eddsVars, lz4Vars, setVars, hdrVars, bcnVars, nameVars, flagVars, runVars, binVars, rollVars>>

\* pack.go 79-247: a run starts with its options and reads the images
SkipStart ==
    /\ skPc = "idle"
    /\ skOpts' \in [Skip : BOOLEAN, Force : BOOLEAN]
    /\ skPc' = "cache"
    /\ skHash' = 0
    /\ skRes' = "running"
    /\ UNCHANGED <<skInputs, skDisk>>
    /\ UNCHANGED <<packVars, eddsVars, lz4Vars, setVars, hdrVars, bcnVars, nameVars, flagVars, runVars, binVars, rollVars>>

\* pack.go 249-261: the hash of the inputs and the decision to skip
SkipCheck ==
    /\ skPc = "cache"
    /\ IF skOpts.Skip
       THEN /\ skHash' = skInputs
            /\ IF shouldSkipPack(skDisk, skInputs)
               THEN skPc' = "idle" /\ skRes' = "skipped"
               ELSE skPc' = "force" /\ skRes' = skRes
       ELSE /\ skHash' = skHash
            /\ skPc' = "force"
            /\ skRes' = skRes
    /\ UNCHANGED <<skInputs, skOpts, skDisk>>
    /\ UNCHANGED <<packVars, eddsVars, lz4Vars, setVars, hdrVars, bcnVars, nameVars, flagVars, runVars, binVars, rollVars>>

\* pack.go 263-270: existing outputs are kept unless --force
SkipForce ==
    /\ skPc = "force"
    /\ IF ~skOpts.Force /\ (Exists(skDisk.imageset) \/ Exists(skDisk.edds))
       THEN skPc' = "idle" /\ skRes' = "error"
       ELSE skPc' = "pack" /\ skRes' = skRes
    /\ UNCHANGED <<skInputs, skOpts, skHash, skDisk>>
    /\ UNCHANGED <<packVars, eddsVars, lz4Vars, setVars, hdrVars, bcnVars, nameVars, flagVars, runVars, binVars, rollVars>>

\* pack.go 272-300: packer.Pack and MkdirAll, either of which may fail
SkipPack ==
    /\ skPc = "pack"
    /\ \E ok \in BOOLEAN :
           IF ok THEN skPc' = "imageset" /\ skRes' = skRes
           ELSE skPc' = "idle" /\ skRes' = "error"
    /\ UNCHANGED <<skInputs, skOpts, skHash, skDisk>>
    /\ UNCHANGED <<packVars, eddsVars, lz4Vars, setVars, hdrVars, bcnVars, nameVars, flagVars, runVars, binVars, rollVars>>

\* pack.go 362-370: os.Create and imageset.Write; Create may fail, and
\* Write may fail on the truncated file
SkipImageset ==
    /\ skPc = "imageset"
    /\ \E how \in {"written", "not created", "not written"} :
           CASE how = "written" ->
                  /\ skDisk' = [skDisk EXCEPT !.imageset = skInputs]
                  /\ skPc' = "edds" /\ skRes' = skRes
             [] how = "not created" ->
                  /\ skDisk' = skDisk
                  /\ skPc' = "idle" /\ skRes' = "error"
             [] OTHER ->
                  /\ skDisk' = [skDisk EXCEPT !.imageset = Partial]
                  /\ skPc' = "idle" /\ skRes' = "error"
    /\ UNCHANGED <<skInputs, skOpts, skHash>>
    /\ UNCHANGED <<packVars, eddsVars, lz4Vars, setVars, hdrVars, bcnVars, nameVars, flagVars, runVars, binVars, rollVars>>

\* pack.go 372-378: imageio.WriteWithOptions, which may fail before or
\* after it created the file
SkipEdds ==
    /\ skPc = "edds"
    /\ \E how \in {"written", "not created", "not written"} :
           CASE how = "written" ->
                  /\ skDisk' = [skDisk EXCEPT !.edds = skInputs]
                  /\ skPc' = "hash" /\ skRes' = skRes
             [] how = "not created" ->
                  /\ skDisk' = skDisk
                  /\ skPc' = "idle" /\ skRes' = "error"
             [] OTHER ->
                  /\ skDisk' = [skDisk EXCEPT !.edds = Partial]
                  /\ skPc' = "idle" /\ skRes' = "error"
    /\ UNCHANGED <<skInputs, skOpts, skHash>>
    /\ UNCHANGED <<packVars, eddsVars, lz4Vars, setVars, hdrVars, bcnVars, nameVars, flagVars, runVars, binVars, rollVars>>

\* pack.go 380-393: the hash is stored when --skip-unchanged is on
SkipStore ==
    /\ skPc = "hash"
    /\ IF skOpts.Skip /\ skHash # 0
       THEN \E ok \in BOOLEAN :
                IF ok
                THEN /\ skDisk' = [skDisk EXCEPT !.cache = skHash]
                     /\ skRes' = "packed"
                ELSE /\ skDisk' = skDisk
                     /\ skRes' = "error"
       ELSE /\ skDisk' = skDisk
            /\ skRes' = "packed"
    /\ skPc' = "idle"
    /\ UNCHANGED <<skInputs, skOpts, skHash>>
    /\ UNCHANGED <<packVars, eddsVars, lz4Vars, setVars, hdrVars, bcnVars, nameVars, flagVars, runVars, binVars, rollVars>>

NextSkip ==
    \/ SkipEdit
    \/ SkipStart
    \/ SkipCheck
    \/ SkipForce
    \/ SkipPack
    \/ SkipImageset
    \/ SkipEdds
    \/ SkipStore

SpecSkip == InitSkip /\ [][NextSkip]_vars

\* C21: over any sequence of runs on one output directory the stored
\* .imagehash equals the input hash of the run that last wrote the
\* .imageset and the .edds, so a run with --skip-unchanged skips only when
\* the inputs are those the two files on disk were made from.
C21_HashIsThatOfTheOutputs ==
    skPc = "idle" =>
        /\ Exists(skDisk.cache) =>
               skDisk.imageset = skDisk.cache /\ skDisk.edds = skDisk.cache
        /\ skRes = "skipped" =>
               skDisk.imageset = skHash /\ skDisk.edds = skHash

\* what the code does: a run with --skip-unchanged that packs to its end
\* leaves the hash of its inputs next to the two files it made of them, and
\* a run skips only when the stored hash is that of its inputs
CompleteRunStoresItsHash ==
    /\ (skPc = "idle" /\ skRes = "packed" /\ skOpts.Skip) =>
           /\ skDisk.cache = skHash
           /\ skDisk.imageset = skHash
           /\ skDisk.edds = skHash
    /\ (skPc = "idle" /\ skRes = "skipped") =>
           skDisk.cache = skHash /\ Exists(skDisk.imageset) /\ Exists(skDisk.edds)

\* a run skipped although the two files were made from other inputs, by a
\* run without --skip-unchanged
StaleOutputsSkipped ==
    /\ skPc = "idle" /\ skRes = "skipped"
    /\ skDisk.cache = skHash
    /\ skDisk.imageset # skHash /\ skDisk.imageset # Partial
    /\ skDisk.edds = skDisk.imageset

\* a run skipped over an .imageset that a failed run left incomplete
PartialOutputSkipped ==
    /\ skPc = "idle" /\ skRes = "skipped"
    /\ (skDisk.imageset = Partial \/ skDisk.edds = Partial)

=============================================================================
